---- MODULE Spec2Model ----
(***************************************************************************)
(* Knowledge-base query matcher of the college FAQ assistant.              *)
(*                                                                         *)
(* Three copies of KnowledgeBase.get_relevant_info live in the repository: *)
(*   src/app.py                     pattern pass, tag-substring pass,      *)
(*                                  per-word fuzzy pass (cutoff 0.6)       *)
(*   src/abhi/src/knowledge_base.py pattern pass, whole-query fuzzy pass   *)
(*                                  over normalized tags (cutoff 0.5)      *)
(*   src/utils/knowledge_base.py    pattern pass, whole-query fuzzy pass   *)
(*                                  over the raw tags (cutoff 0.5)         *)
(*                                                                         *)
(* A Python str is a sequence of one-character strings.  An entry is a     *)
(* function from the keys it has to their values, so that a missing key    *)
(* is a key outside its DOMAIN (dict.get).  The value returned by          *)
(* get_relevant_info is a reference to an element of self.faqs: it is      *)
(* modelled by the element's position in the list, None by NoEntry.        *)
(***************************************************************************)
EXTENDS Integers, Sequences, FiniteSets, TLC

VARIABLES faqs, query, q_norm, result, via, impl, kb_entry, answer, types, procs, frames

\* st.session_state of one browser session and the position of its script
VARIABLES messages, last_audio, autoplay_pending, welcomed, listening, processing, speaking,
          preferences, script

\* the AudioProcessor of the session, the str hashes of its process, the last
\* call of text_to_speech, and the first successful synthesis of each
\* (prepared text, target language, speaker, pace)
VARIABLES audio_cache, str_hash, tts_call, synthesized

\* what a call of extract_specific_answer or get_question_type leaves behind
factVars == <<kb_entry, answer, types>>

\* the calls in flight at once and the locals of each
concVars == <<procs, frames>>

sessionVars ==
    <<messages, last_audio, autoplay_pending, welcomed, listening, processing, speaking,
      preferences, script>>

audioVars == <<audio_cache, str_hash, tts_call, synthesized>>

\* what the calls made on a KnowledgeBase alone leave as it is
appVars == <<sessionVars, audioVars>>

vars ==
    <<faqs, query, q_norm, result, via, impl, kb_entry, answer, types, procs, frames,
      messages, last_audio, autoplay_pending, welcomed, listening, processing, speaking,
      preferences, script, audio_cache, str_hash, tts_call, synthesized>>

(***************************************************************************)
(* Bounds of the model.                                                    *)
(***************************************************************************)
MaxEntries == 2
MaxQueryLen == 2

(***************************************************************************)
(* Characters and str methods.                                             *)
(***************************************************************************)
Alphabet == {" ", "A", "a", "b"}

\* ord(c) for the characters of the alphabet
Ord(c) ==
    CASE c = " " -> 32
      [] c = "A" -> 65
      [] c = "B" -> 66
      [] c = "a" -> 97
      [] c = "b" -> 98
      [] c = "c" -> 99
      [] c = "x" -> 120
      [] OTHER -> 0

\* str.isspace for the characters of the model
IsSpace(c) == c \in {" ", "\t", "\n"}

LowerMap ==
    [A |-> "a", B |-> "b", C |-> "c", D |-> "d", E |-> "e", F |-> "f",
     G |-> "g", H |-> "h", I |-> "i", J |-> "j", K |-> "k", L |-> "l",
     M |-> "m", N |-> "n", O |-> "o", P |-> "p", Q |-> "q", R |-> "r",
     S |-> "s", T |-> "t", U |-> "u", V |-> "v", W |-> "w", X |-> "x",
     Y |-> "y", Z |-> "z"]

LowerChar(c) == IF c \in DOMAIN LowerMap THEN LowerMap[c] ELSE c

\* str.lower()
Lower(s) == [i \in 1..Len(s) |-> LowerChar(s[i])]

\* str.strip()
Strip(s) ==
    LET keep == {i \in 1..Len(s) : ~IsSpace(s[i])}
    IN  IF keep = {} THEN <<>>
        ELSE LET lo == CHOOSE i \in keep : \A j \in keep : i <= j
                 hi == CHOOSE i \in keep : \A j \in keep : j <= i
             IN  SubSeq(s, lo, hi)

\* the "in" operator of str: s in t
IsSubstr(s, t) ==
    \E i \in 0..(Len(t) - Len(s)) : SubSeq(t, i + 1, i + Len(s)) = s

\* str comparison: s < t (lexicographic by code point)
StrLess(s, t) ==
    \E k \in 1..(Len(t)) :
        /\ k - 1 <= Len(s)
        /\ SubSeq(s, 1, k - 1) = SubSeq(t, 1, k - 1)
        /\ \/ Len(s) = k - 1
           \/ Len(s) >= k /\ Ord(s[k]) < Ord(t[k])

\* str.split(): the maximal runs of non-whitespace characters, in order
RECURSIVE SplitFrom(_, _, _)
SplitFrom(s, i, cur) ==
    IF i > Len(s)
    THEN IF cur = <<>> THEN <<>> ELSE <<cur>>
    ELSE IF IsSpace(s[i])
         THEN (IF cur = <<>> THEN <<>> ELSE <<cur>>) \o SplitFrom(s, i + 1, <<>>)
         ELSE SplitFrom(s, i + 1, Append(cur, s[i]))

Split(s) == SplitFrom(s, 1, <<>>)

\* _normalize without strip()
normalize_lower_only(text) == Lower(text)

\* KnowledgeBase._normalize
normalize(text) == Strip(Lower(text))

(***************************************************************************)
(* difflib.SequenceMatcher (isjunk = None; autojunk has no effect below    *)
(* 200 elements).  Indices are Python's: 0-based, ranges half-open.        *)
(***************************************************************************)

\* a[i:i+k] == b[j:j+k]
BlockMatches(a, b, i, j, k) ==
    \A d \in 0..(k - 1) : a[i + d + 1] = b[j + d + 1]

\* SequenceMatcher.find_longest_match(alo, ahi, blo, bhi): <<i, j, k>> with k
\* maximal, then the block starting earliest in a, then earliest in b
find_longest_match(a, b, alo, ahi, blo, bhi) ==
    LET Blocks == {t \in (alo..(ahi - 1)) \X (blo..(bhi - 1)) \X (1..(ahi - alo)) :
                      /\ t[1] + t[3] <= ahi
                      /\ t[2] + t[3] <= bhi
                      /\ BlockMatches(a, b, t[1], t[2], t[3])}
        Better(t, u) ==
            \/ t[3] > u[3]
            \/ t[3] = u[3] /\ t[1] < u[1]
            \/ t[3] = u[3] /\ t[1] = u[1] /\ t[2] < u[2]
    IN  IF Blocks = {} THEN <<alo, blo, 0>>
        ELSE CHOOSE t \in Blocks : \A u \in Blocks : u = t \/ Better(t, u)

\* SequenceMatcher.get_matching_blocks, summed: the number of matched characters
RECURSIVE matches(_, _, _, _, _, _)
matches(a, b, alo, ahi, blo, bhi) ==
    LET x == find_longest_match(a, b, alo, ahi, blo, bhi)
        i == x[1]
        j == x[2]
        k == x[3]
    IN  IF k = 0 THEN 0
        ELSE k + (IF alo < i /\ blo < j THEN matches(a, b, alo, i, blo, j) ELSE 0)
               + (IF i + k < ahi /\ j + k < bhi
                  THEN matches(a, b, i + k, ahi, j + k, bhi) ELSE 0)

\* A float ratio 2.0*M/T is kept as the exact fraction <<numerator, denominator>>;
\* _calculate_ratio returns 1.0 when both strings are empty.
calculate_ratio(m, length) ==
    IF length > 0 THEN <<2 * m, length>> ELSE <<1, 1>>

\* SequenceMatcher.ratio() with seq1 = a, seq2 = b
ratio(a, b) == calculate_ratio(matches(a, b, 0, Len(a), 0, Len(b)), Len(a) + Len(b))

\* SequenceMatcher.quick_ratio(): the multiset intersection of the characters
quick_ratio(a, b) ==
    LET Count(s, c) == Cardinality({i \in 1..Len(s) : s[i] = c})
        Chars == {a[i] : i \in 1..Len(a)}
        Min(x, y) == IF x < y THEN x ELSE y
        RECURSIVE Sum(_)
        Sum(S) == IF S = {} THEN 0
                  ELSE LET c == CHOOSE c \in S : TRUE
                       IN  Min(Count(a, c), Count(b, c)) + Sum(S \ {c})
    IN  calculate_ratio(Sum(Chars), Len(a) + Len(b))

\* SequenceMatcher.real_quick_ratio()
real_quick_ratio(a, b) ==
    calculate_ratio(IF Len(a) < Len(b) THEN Len(a) ELSE Len(b), Len(a) + Len(b))

\* the cutoff test passing ratios up to 0.2 below the cutoff
RatioAtLeastLoose(r, tenths) == 10 * r[1] >= (tenths - 2) * r[2]

\* r >= cutoff, the cutoff given in tenths (0.5 is 5, 0.6 is 6)
RatioAtLeast(r, tenths) == 10 * r[1] >= tenths * r[2]

\* r1 < r2
RatioLess(r1, r2) == r1[1] * r2[2] < r2[1] * r1[2]

\* r1 = r2 as floats
RatioEq(r1, r2) == r1[1] * r2[2] = r2[1] * r1[2]

\* get_close_matches stopping at the first possibility that reaches the cutoff
get_close_matches_first(word, possibilities, tenths) ==
    LET Passing == {k \in 1..Len(possibilities) :
                       10 * ratio(possibilities[k], word)[1]
                           >= tenths * ratio(possibilities[k], word)[2]}
    IN  IF Passing = {} THEN <<>>
        ELSE LET first == CHOOSE k \in Passing : \A l \in Passing : k <= l
             IN  <<possibilities[first]>>

\* difflib.get_close_matches(word, possibilities, n=1, cutoff): <<>> or <<best>>,
\* best being the maximum of the (score, x) tuples of the possibilities that pass
get_close_matches(word, possibilities, tenths) ==
    LET Passing == {k \in 1..Len(possibilities) :
                       /\ RatioAtLeast(real_quick_ratio(possibilities[k], word), tenths)
                       /\ RatioAtLeast(quick_ratio(possibilities[k], word), tenths)
                       /\ RatioAtLeast(ratio(possibilities[k], word), tenths)}
        Score(k) == ratio(possibilities[k], word)
        TupleLess(k, l) ==
            \/ RatioLess(Score(k), Score(l))
            \/ /\ RatioEq(Score(k), Score(l))
               /\ StrLess(possibilities[k], possibilities[l])
    IN  IF Passing = {} THEN <<>>
        ELSE LET best == CHOOSE k \in Passing : \A l \in Passing : ~TupleLess(k, l)
             IN  <<possibilities[best]>>

(***************************************************************************)
(* The knowledge base.                                                     *)
(***************************************************************************)

\* the None returned by get_relevant_info; entries are numbered from 1
NoEntry == 0

\* the cutoff passed to get_close_matches, in tenths
AppCutoff == 6
KbCutoff == 5

\* a word takes part in app.py's fuzzy pass if len(word) > MinWordLen
MinWordLen == 3

\* entry.get(key, default)
EntryGet(entry, key, default) ==
    IF key \in DOMAIN entry THEN entry[key] ELSE default

\* PatternHit that passes over empty patterns
PatternHitSkipsEmpty(p_norm, qn) ==
    p_norm # <<>> /\ (IsSubstr(p_norm, qn) \/ IsSubstr(qn, p_norm))

\* PatternHit testing one direction only
PatternHitForwardOnly(p_norm, qn) == IsSubstr(p_norm, qn)

\* p_norm in q_norm or q_norm in p_norm
PatternHit(p_norm, qn) == IsSubstr(p_norm, qn) \/ IsSubstr(qn, p_norm)

\* the pattern loop starting at the second entry of the list
PatternScanSkipsFirst(fs, qn, i) ==
    LET Hits == {j \in (i + 1)..Len(fs) :
                    LET patterns == EntryGet(fs[j], "question_patterns", <<>>)
                    IN  \E k \in 1..Len(patterns) :
                            LET p == normalize(patterns[k])
                            IN  IsSubstr(p, qn) \/ IsSubstr(qn, p)}
    IN  IF Hits = {} THEN NoEntry ELSE CHOOSE j \in Hits : \A l \in Hits : j <= l

\* the pattern loop running to the end of the list and keeping the last entry that hits
PatternScanKeepsLast(fs, qn, i) ==
    LET Hits == {j \in i..Len(fs) :
                    LET patterns == EntryGet(fs[j], "question_patterns", <<>>)
                    IN  \E k \in 1..Len(patterns) :
                            LET p == normalize(patterns[k])
                            IN  IsSubstr(p, qn) \/ IsSubstr(qn, p)}
    IN  IF Hits = {} THEN NoEntry ELSE CHOOSE j \in Hits : \A l \in Hits : l <= j

\* the pattern loop: the first entry, from position i, one of whose patterns hits
RECURSIVE PatternScan(_, _, _)
PatternScan(fs, qn, i) ==
    IF i > Len(fs) THEN NoEntry
    ELSE LET patterns == EntryGet(fs[i], "question_patterns", <<>>)
         IN  IF \E k \in 1..Len(patterns) : PatternHit(normalize(patterns[k]), qn)
             THEN i
             ELSE PatternScan(fs, qn, i + 1)

\* the tag loop of app.py and abhi/src/knowledge_base.py: the pairs
\* <<t_norm, entry>> in the order they are appended to all_tags
RECURSIVE TagPairs(_, _)
TagPairs(fs, i) ==
    IF i > Len(fs) THEN <<>>
    ELSE LET tags == EntryGet(fs[i], "tags", <<>>)
         IN  [k \in 1..Len(tags) |-> <<normalize(tags[k]), i>>] \o TagPairs(fs, i + 1)

\* the tag loop of utils/knowledge_base.py, which keeps the tags as written
RECURSIVE RawTagPairs(_, _)
RawTagPairs(fs, i) ==
    IF i > Len(fs) THEN <<>>
    ELSE LET tags == EntryGet(fs[i], "tags", <<>>)
         IN  [k \in 1..Len(tags) |-> <<tags[k], i>>] \o RawTagPairs(fs, i + 1)

\* all_tags after the tag loop
AllTags(pairs) == [k \in 1..Len(pairs) |-> pairs[k][1]]

\* tag_to_entry holding the position of the tag in all_tags, not its entry
TagToEntryTagPosition(pairs, t) ==
    CHOOSE k \in 1..Len(pairs) :
        /\ pairs[k][1] = t
        /\ \A l \in (k + 1)..Len(pairs) : pairs[l][1] # t

\* tag_to_entry filled with setdefault: the first owner of a tag is kept
TagToEntryKeepsFirst(pairs, t) ==
    LET first == CHOOSE k \in 1..Len(pairs) :
                     /\ pairs[k][1] = t
                     /\ \A l \in 1..(k - 1) : pairs[l][1] # t
    IN  pairs[first][2]

\* tag_to_entry[t] after the tag loop: every assignment overwrites the earlier ones
TagToEntry(pairs, t) ==
    LET last == CHOOSE k \in 1..Len(pairs) :
                    /\ pairs[k][1] = t
                    /\ \A l \in (k + 1)..Len(pairs) : pairs[l][1] # t
    IN  pairs[last][2]

\* app.py: "for tag in all_tags: if tag in q_norm: return tag_to_entry[tag]"
TagSubstringScan(pairs, qn) ==
    LET all_tags == AllTags(pairs)
        Hits == {k \in 1..Len(all_tags) : IsSubstr(all_tags[k], qn)}
    IN  IF Hits = {} THEN NoEntry
        ELSE LET first == CHOOSE k \in Hits : \A l \in Hits : k <= l
             IN  TagToEntry(pairs, all_tags[first])

\* the loop over the words taken from the last word to the first
RECURSIVE WordFuzzyScanLastWordFirst(_, _, _)
WordFuzzyScanLastWordFirst(pairs, words, w) ==
    IF w > Len(words) THEN NoEntry
    ELSE LET word == words[Len(words) + 1 - w]
             close_matches ==
                 IF Len(word) > MinWordLen
                 THEN get_close_matches(word, AllTags(pairs), AppCutoff)
                 ELSE <<>>
         IN  IF close_matches # <<>>
             THEN TagToEntry(pairs, close_matches[1])
             ELSE WordFuzzyScanLastWordFirst(pairs, words, w + 1)

\* app.py: the loop over q_norm.split(), from word w
RECURSIVE WordFuzzyScan(_, _, _)
WordFuzzyScan(pairs, words, w) ==
    IF w > Len(words) THEN NoEntry
    ELSE LET close_matches ==
                 IF Len(words[w]) > MinWordLen
                 THEN get_close_matches(words[w], AllTags(pairs), AppCutoff)
                 ELSE <<>>
         IN  IF close_matches # <<>>
             THEN TagToEntry(pairs, close_matches[1])
             ELSE WordFuzzyScan(pairs, words, w + 1)

\* the whole-query comparison made at the cutoff app.py uses for its words
QueryFuzzyAtWordCutoff(pairs, qn) ==
    LET close_matches == get_close_matches(qn, AllTags(pairs), AppCutoff)
    IN  IF close_matches # <<>> THEN TagToEntry(pairs, close_matches[1]) ELSE NoEntry

\* the whole-query fuzzy pass of the two knowledge_base.py files
QueryFuzzy(pairs, qn) ==
    LET close_matches == get_close_matches(qn, AllTags(pairs), KbCutoff)
    IN  IF close_matches # <<>> THEN TagToEntry(pairs, close_matches[1]) ELSE NoEntry

Outcome(r, v, qn) == [result |-> r, via |-> v, q_norm |-> qn]

\* app.py's matcher normalizing the query before it looks at self.faqs
app_normalizes_first(fs, q) ==
    LET qn == normalize(q)
        byPattern == PatternScan(fs, qn, 1)
        pairs == TagPairs(fs, 1)
        byTag == TagSubstringScan(pairs, qn)
        byFuzzy == WordFuzzyScan(pairs, Split(qn), 1)
    IN  IF byPattern # NoEntry THEN Outcome(byPattern, "pattern", <<qn>>)
        ELSE IF byTag # NoEntry THEN Outcome(byTag, "tag", <<qn>>)
        ELSE IF byFuzzy # NoEntry THEN Outcome(byFuzzy, "fuzzy", <<qn>>)
        ELSE Outcome(NoEntry, IF fs = <<>> THEN "empty" ELSE "none", <<qn>>)

\* app.py's matcher with the tag pass moved in front of the pattern pass
app_tags_before_patterns(fs, q) ==
    IF fs = <<>> THEN Outcome(NoEntry, "empty", <<>>)
    ELSE LET qn == normalize(q)
             byPattern == PatternScan(fs, qn, 1)
             pairs == TagPairs(fs, 1)
             byTag == TagSubstringScan(pairs, qn)
             byFuzzy == WordFuzzyScan(pairs, Split(qn), 1)
         IN  IF byTag # NoEntry THEN Outcome(byTag, "tag", <<qn>>)
             ELSE IF byPattern # NoEntry THEN Outcome(byPattern, "pattern", <<qn>>)
             ELSE IF byFuzzy # NoEntry THEN Outcome(byFuzzy, "fuzzy", <<qn>>)
             ELSE Outcome(NoEntry, "none", <<qn>>)

\* get_relevant_info handing back the first entry when no pass finds one
app_falls_back_to_first(fs, q) ==
    IF fs = <<>> THEN Outcome(NoEntry, "empty", <<>>)
    ELSE LET qn == normalize(q)
             byPattern == PatternScan(fs, qn, 1)
             pairs == TagPairs(fs, 1)
             byTag == TagSubstringScan(pairs, qn)
             byFuzzy == WordFuzzyScan(pairs, Split(qn), 1)
         IN  IF byPattern # NoEntry THEN Outcome(byPattern, "pattern", <<qn>>)
             ELSE IF byTag # NoEntry THEN Outcome(byTag, "tag", <<qn>>)
             ELSE IF byFuzzy # NoEntry THEN Outcome(byFuzzy, "fuzzy", <<qn>>)
             ELSE Outcome(1, "none", <<qn>>)

\* src/app.py KnowledgeBase.get_relevant_info
app_get_relevant_info(fs, q) ==
    IF fs = <<>> THEN Outcome(NoEntry, "empty", <<>>)
    ELSE LET qn == normalize(q)
             byPattern == PatternScan(fs, qn, 1)
             pairs == TagPairs(fs, 1)
             byTag == TagSubstringScan(pairs, qn)
             byFuzzy == WordFuzzyScan(pairs, Split(qn), 1)
         IN  IF byPattern # NoEntry THEN Outcome(byPattern, "pattern", <<qn>>)
             ELSE IF byTag # NoEntry THEN Outcome(byTag, "tag", <<qn>>)
             ELSE IF byFuzzy # NoEntry THEN Outcome(byFuzzy, "fuzzy", <<qn>>)
             ELSE Outcome(NoEntry, "none", <<qn>>)

\* src/abhi/src/knowledge_base.py KnowledgeBase.get_relevant_info
abhi_get_relevant_info(fs, q) ==
    IF fs = <<>> THEN Outcome(NoEntry, "empty", <<>>)
    ELSE LET qn == normalize(q)
             byPattern == PatternScan(fs, qn, 1)
             byFuzzy == QueryFuzzy(TagPairs(fs, 1), qn)
         IN  IF byPattern # NoEntry THEN Outcome(byPattern, "pattern", <<qn>>)
             ELSE IF byFuzzy # NoEntry THEN Outcome(byFuzzy, "fuzzy", <<qn>>)
             ELSE Outcome(NoEntry, "none", <<qn>>)

\* src/utils/knowledge_base.py KnowledgeBase.get_relevant_info
utils_get_relevant_info(fs, q) ==
    IF fs = <<>> THEN Outcome(NoEntry, "empty", <<>>)
    ELSE LET qn == normalize(q)
             byPattern == PatternScan(fs, qn, 1)
             byFuzzy == QueryFuzzy(RawTagPairs(fs, 1), qn)
         IN  IF byPattern # NoEntry THEN Outcome(byPattern, "pattern", <<qn>>)
             ELSE IF byFuzzy # NoEntry THEN Outcome(byFuzzy, "fuzzy", <<qn>>)
             ELSE Outcome(NoEntry, "none", <<qn>>)

(***************************************************************************)
(* Inputs: the FAQ lists a JSON file can hold and the queries a caller     *)
(* can pass.                                                               *)
(***************************************************************************)

\* the lists of at most n elements of S
RECURSIVE SeqsUpTo(_, _)
SeqsUpTo(S, n) ==
    IF n = 0 THEN {<<>>}
    ELSE LET shorter == SeqsUpTo(S, n - 1)
         IN  shorter \cup {Append(s, x) : s \in {t \in shorter : Len(t) = n - 1}, x \in S}

Absent == <<"<absent>">>

PatternLists ==
    { Absent,
      << <<>> >>,
      << <<"a", "a">> >>,
      << <<" ", "A", "b">>, <<"b">> >> }

TagLists ==
    { Absent,
      << <<"A", "B">> >>,
      << <<"a", "b", "b">>, <<"b", "b">> >>,
      << <<"a", "a", "b", "a">> >> }

\* an entry of the JSON file; a key may be missing
MakeEntry(ps, ts) ==
    LET keys == (IF ps = Absent THEN {} ELSE {"question_patterns"})
                \cup (IF ts = Absent THEN {} ELSE {"tags"})
    IN  [k \in keys |-> IF k = "question_patterns" THEN ps ELSE ts]

Entries == {MakeEntry(ps, ts) : ps \in PatternLists, ts \in TagLists}

FaqLists == SeqsUpTo(Entries, MaxEntries)

QueryAlphabet == {" ", "a", "b"}

ExtraQueries ==
    { <<"A", "B">>,
      <<" ", "A", "b">>,
      <<"a", "b", "a">>,
      <<"a", "a", "b">>,
      <<"a", "b", "a", "b">>,
      <<"b", "a", "a", "a">>,
      <<"b", "b", "b", "b">>,
      <<"A", "A", "B", "A">>,
      <<"a", "a", " ", "a", "b", "a", "b">> }

Queries == SeqsUpTo(QueryAlphabet, MaxQueryLen) \cup ExtraQueries

\* what one call hands back: value is <<>> for None and <<str(value)>>
\* otherwise; site is the return statement taken, fact the position of the
\* fact returned, types the categories detected
Answer(value, key, site, fact, question_types) ==
    [value |-> value, key |-> key, site |-> site, fact |-> fact, types |-> question_types]

NoAnswer(site, question_types) == Answer(<<>>, <<>>, site, 0, question_types)

\* the request handlers that may be inside the knowledge base at once
Callers == {1, 2}

\* the locals of one call of get_relevant_info or extract_specific_answer
EmptyFrame ==
    [query |-> <<>>, kb_entry |-> NoEntry, q_norm |-> <<>>, pairs |-> <<>>,
     query_lower |-> <<>>, question_types |-> <<>>, facts |-> <<>>]

\* what a handler has not been handed yet
NoReturn == <<"no return">>

\* a handler outside the knowledge base; overlap records that a step of its
\* call was taken while the other handler was inside a call
IdleCaller ==
    [pc |-> "idle", kind |-> "none", query |-> <<>>, kb_entry |-> NoEntry,
     ret |-> NoReturn, overlap |-> FALSE]

NoCalls == [p \in Callers |-> IdleCaller]

NoFrames == [p \in Callers |-> EmptyFrame]

(***************************************************************************)
(* The state machine: the FAQ list is loaded once; each step is one call   *)
(* of get_relevant_info of one of the three files, whose return value the  *)
(* caller then uses and drops before it asks again.                        *)
(***************************************************************************)

(***************************************************************************)
(* The session state before the first script run has done anything.        *)
(***************************************************************************)
\* Optional[bytes]: <<>> is None, <<b>> is the bytes b, <<"">> is b""
NoAudio == <<>>

DefaultPreferences ==
    [voice_enabled |-> TRUE, auto_play |-> TRUE, tts_language |-> "ml", speaker |-> "arya",
     speech_rate |-> "Normal", pitch |-> 0, loudness |-> 15]

\* no script run has been made yet
NotRun == [pending |-> FALSE, handler |-> "init_session", is_mobile |-> FALSE]

init_session ==
    /\ messages = <<>>
    /\ preferences = DefaultPreferences
    /\ last_audio = NoAudio
    /\ autoplay_pending = FALSE
    /\ welcomed = FALSE
    /\ listening = FALSE
    /\ processing = FALSE
    /\ speaking = FALSE
    /\ script = NotRun

\* no call of text_to_speech has been made
NoTtsCall == [called |-> FALSE, returned |-> NoAudio]

\* AudioProcessor.__init__, before any text has been given a hash
NoAudioProcessor ==
    /\ audio_cache = <<>>
    /\ str_hash = <<>>
    /\ tts_call = NoTtsCall
    /\ synthesized = <<>>

Init ==
    /\ faqs \in FaqLists
    /\ query = <<>>
    /\ q_norm = <<>>
    /\ result = NoEntry
    /\ via = "init"
    /\ impl = "none"
    /\ kb_entry = NoEntry
    /\ answer = NoAnswer("init", <<>>)
    /\ types = <<>>
    /\ procs = NoCalls
    /\ frames = NoFrames
    /\ init_session
    /\ NoAudioProcessor

Idle == via = "init"

\* a call that stores the normalized patterns and tags back into the entries
CallNormalizingInPlace(name, out, q) ==
    /\ Idle
    /\ query' = q
    /\ q_norm' = out.q_norm
    /\ result' = out.result
    /\ via' = out.via
    /\ impl' = name
    /\ faqs' = [i \in 1..Len(faqs) |->
                    [k \in DOMAIN faqs[i] |->
                        IF k \in {"question_patterns", "tags"}
                        THEN [j \in 1..Len(faqs[i][k]) |-> normalize(faqs[i][k][j])]
                        ELSE faqs[i][k]]]
    /\ UNCHANGED factVars
    /\ UNCHANGED concVars
    /\ UNCHANGED appVars

Call(name, out, q) ==
    /\ Idle
    /\ query' = q
    /\ q_norm' = out.q_norm
    /\ result' = out.result
    /\ via' = out.via
    /\ impl' = name
    /\ UNCHANGED faqs
    /\ UNCHANGED factVars
    /\ UNCHANGED concVars
    /\ UNCHANGED appVars

AppGetRelevantInfo == \E q \in Queries : Call("app", app_get_relevant_info(faqs, q), q)

AbhiGetRelevantInfo == \E q \in Queries : Call("abhi", abhi_get_relevant_info(faqs, q), q)

UtilsGetRelevantInfo == \E q \in Queries : Call("utils", utils_get_relevant_info(faqs, q), q)

\* the caller is done with the returned entry and is ready for the next query
Discard ==
    /\ ~Idle
    /\ query' = <<>>
    /\ q_norm' = <<>>
    /\ result' = NoEntry
    /\ via' = "init"
    /\ impl' = "none"
    /\ kb_entry' = NoEntry
    /\ answer' = NoAnswer("init", <<>>)
    /\ types' = <<>>
    /\ UNCHANGED faqs
    /\ UNCHANGED concVars
    /\ UNCHANGED appVars

Next == AppGetRelevantInfo \/ AbhiGetRelevantInfo \/ UtilsGetRelevantInfo \/ Discard

Spec == Init /\ [][Next]_vars

(***************************************************************************)
(* Vocabulary of the properties.  It speaks of the loaded list and of the  *)
(* query of the last call directly, not through the scans above.           *)
(***************************************************************************)

Returned == ~Idle

QN == normalize(query)

Positions == 1..Len(faqs)

PatternsOf(i) == EntryGet(faqs[i], "question_patterns", <<>>)

TagsOf(i) == EntryGet(faqs[i], "tags", <<>>)

\* some pattern of entry i, normalized, lies in the normalized query or holds it
EntryHits(i) ==
    \E k \in 1..Len(PatternsOf(i)) :
        LET p == normalize(PatternsOf(i)[k])
        IN  IsSubstr(p, QN) \/ IsSubstr(QN, p)

SomeHit == \E i \in Positions : EntryHits(i)

FirstHit == CHOOSE i \in Positions : EntryHits(i) /\ \A j \in 1..(i - 1) : ~EntryHits(j)

NormTagsOf(i) == {normalize(TagsOf(i)[k]) : k \in 1..Len(TagsOf(i))}

\* entry i carries a tag that, normalized, lies in the normalized query
TagInQuery(i) == \E t \in NormTagsOf(i) : IsSubstr(t, QN)

SomeTagInQuery == \E i \in Positions : TagInQuery(i)

(***************************************************************************)
(* C1.  The passes of get_relevant_info run in strict priority: if some    *)
(* entry has a pattern that substring-matches the normalized query, the    *)
(* pattern pass decides (the first such entry is returned) whatever the    *)
(* tags are; the tag-substring pass of app.py decides exactly when no      *)
(* pattern matches and some tag lies in the query; the fuzzy pass decides  *)
(* only when no earlier pass of that file produced a result.               *)
(***************************************************************************)
C1_StrictPriority ==
    (Returned /\ faqs # <<>>) =>
        /\ SomeHit => (via = "pattern" /\ result = FirstHit)
        /\ via = "pattern" => SomeHit
        /\ via = "tag" => (impl = "app" /\ ~SomeHit /\ TagInQuery(result))
        /\ (impl = "app" /\ ~SomeHit /\ SomeTagInQuery) => via = "tag"
        /\ via \in {"fuzzy", "none"} => (~SomeHit /\ (impl = "app" => ~SomeTagInQuery))

\* a pattern of one entry and a tag of another both match; the pattern's entry wins
C1_Witness ==
    /\ impl = "app"
    /\ via = "pattern"
    /\ \A k \in 1..Len(PatternsOf(result)) : PatternsOf(result)[k] # <<>>
    /\ \E i \in Positions : i # result /\ ~EntryHits(i) /\ TagInQuery(i)

(***************************************************************************)
(* C2.  When the pattern pass returns, it returns the first entry in list  *)
(* order that has a pattern P with normalize(P) inside normalize(query) or *)
(* normalize(query) inside normalize(P): the returned entry has such a     *)
(* pattern and no entry before it has one.                                 *)
(***************************************************************************)
C2_FirstEntryWithHit ==
    (Returned /\ via = "pattern") =>
        /\ result \in Positions
        /\ EntryHits(result)
        /\ \A j \in 1..(result - 1) : ~EntryHits(j)

\* the first entry has patterns, none of them matches, and the second is returned
C2_Witness ==
    /\ via = "pattern"
    /\ result = 2
    /\ PatternsOf(1) # <<>>
    /\ \E k \in 1..Len(PatternsOf(2)) :
           LET p == normalize(PatternsOf(2)[k])
           IN  IsSubstr(p, QN) /\ p # QN /\ p # <<>>

\* entry i has a pattern whose normalized form is exactly the normalized query
ExactAt(i) == \E k \in 1..Len(PatternsOf(i)) : normalize(PatternsOf(i)[k]) = QN

(***************************************************************************)
(* C3 as stated.  If the normalized query equals the normalized form of a  *)
(* pattern of some entry, get_relevant_info returns an entry that has that *)
(* pattern, also when earlier entries have patterns lying in the query.    *)
(***************************************************************************)
C3_ExactPatternEntryReturned ==
    (Returned /\ faqs # <<>> /\ \E i \in Positions : ExactAt(i)) =>
        (result \in Positions /\ ExactAt(result))

(***************************************************************************)
(* C3 amended.  If the normalized query equals the normalized form of a    *)
(* pattern of entry E, the pattern pass decides and returns the first      *)
(* entry in list order that has a pattern substring-matching the query in  *)
(* either direction; that entry is E when no entry before E has such a     *)
(* pattern.                                                                *)
(***************************************************************************)
C3_ExactPatternFirstHit ==
    (Returned /\ faqs # <<>>) =>
        \A i \in Positions :
            ExactAt(i) =>
                /\ via = "pattern"
                /\ result = FirstHit
                /\ result <= i
                /\ (\A j \in 1..(i - 1) : ~EntryHits(j)) => result = i

\* the query is a pattern of the second entry; the first has patterns that do not match
C3_Witness ==
    /\ Returned
    /\ Len(faqs) = 2
    /\ QN # <<>>
    /\ ExactAt(2)
    /\ PatternsOf(1) # <<>>
    /\ ~EntryHits(1)
    /\ result = 2

\* entry i has a pattern that is not the empty string
HasNonEmptyPattern(i) == \E k \in 1..Len(PatternsOf(i)) : PatternsOf(i)[k] # <<>>

(***************************************************************************)
(* C4 as stated.  For the empty query, when some entry has a non-empty     *)
(* pattern, get_relevant_info returns the first entry in list order that   *)
(* has a non-empty pattern.                                                *)
(***************************************************************************)
C4_EmptyQueryFirstNonEmptyPattern ==
    (Returned /\ query = <<>> /\ \E i \in Positions : HasNonEmptyPattern(i)) =>
        /\ result \in Positions
        /\ HasNonEmptyPattern(result)
        /\ \A j \in 1..(result - 1) : ~HasNonEmptyPattern(j)

(***************************************************************************)
(* C4 amended.  For the empty query, when some entry has a pattern,        *)
(* get_relevant_info returns the first entry in list order that has any    *)
(* pattern at all, the empty string included: an earlier entry whose only  *)
(* patterns are empty strings is the one returned.                         *)
(***************************************************************************)
C4_EmptyQueryFirstPattern ==
    (Returned /\ query = <<>> /\ \E i \in Positions : PatternsOf(i) # <<>>) =>
        /\ result \in Positions
        /\ PatternsOf(result) # <<>>
        /\ \A j \in 1..(result - 1) : PatternsOf(j) = <<>>

\* the first entry has only the empty pattern, the second a non-empty one
C4_Witness ==
    /\ Returned
    /\ query = <<>>
    /\ Len(faqs) = 2
    /\ PatternsOf(1) # <<>>
    /\ ~HasNonEmptyPattern(1)
    /\ HasNonEmptyPattern(2)
    /\ result = 1

\* the first tag, in collection order, that lies in the normalized query
FirstTagInQuery ==
    LET i == CHOOSE i \in Positions : TagInQuery(i) /\ \A j \in 1..(i - 1) : ~TagInQuery(j)
        ts == TagsOf(i)
        k == CHOOSE k \in 1..Len(ts) :
                 /\ IsSubstr(normalize(ts[k]), QN)
                 /\ \A l \in 1..(k - 1) : ~IsSubstr(normalize(ts[l]), QN)
    IN  normalize(ts[k])

\* the entries that carry the normalized tag t
Carriers(t) == {i \in Positions : t \in NormTagsOf(i)}

(***************************************************************************)
(* C5.  In app.py, when the tag-substring pass returns, the tag selected   *)
(* is the first tag in collection order lying in the normalized query, and *)
(* of the entries carrying that normalized tag the one returned is the     *)
(* last in the list: with two carriers, the later and never the earlier.   *)
(***************************************************************************)
C5_LaterEntryOwnsSharedTag ==
    (Returned /\ impl = "app" /\ via = "tag") =>
        /\ result \in Carriers(FirstTagInQuery)
        /\ \A i \in Carriers(FirstTagInQuery) : i <= result

\* two different entries carry the selected tag
C5_Witness ==
    /\ Returned
    /\ impl = "app"
    /\ via = "tag"
    /\ Carriers(FirstTagInQuery) = {1, 2}
    /\ faqs[1] # faqs[2]
    /\ result = 2

\* the fuzzy pass is reached: no pattern matched and, in app.py, no tag lies in the query
FuzzyReached ==
    Returned /\ faqs # <<>> /\ ~SomeHit /\ (impl = "app" => ~SomeTagInQuery)

AllNormTags == UNION {NormTagsOf(i) : i \in Positions}

\* the similarity ratio of tag t and text c is at least tenths/10
Reaches(t, c, tenths) ==
    LET r == ratio(t, c) IN 10 * r[1] >= tenths * r[2]

\* the ratio of tag t and text c is at least that of tag u and c
NotBelow(t, u, c) ==
    LET rt == ratio(t, c)
        ru == ratio(u, c)
    IN  ru[1] * rt[2] <= rt[1] * ru[2]

\* the tags that reach the cutoff against text c
Passing(c, tenths) == {t \in AllNormTags : Reaches(t, c, tenths)}

\* the result is none if no tag reaches the cutoff against c, and otherwise the
\* owner (the last carrier) of a tag whose ratio no other tag exceeds
FuzzyChoice(c, tenths) ==
    IF Passing(c, tenths) = {} THEN result = NoEntry
    ELSE \E t \in Passing(c, tenths) :
             /\ \A u \in AllNormTags : NotBelow(t, u, c)
             /\ result \in Carriers(t)
             /\ \A i \in Carriers(t) : i <= result

(***************************************************************************)
(* C6 as stated.  The fuzzy pass of app.py and of abhi/src compares the    *)
(* whole normalized query with every normalized tag and returns the owner  *)
(* of the tag of highest ratio among those of ratio at least 0.5, none if  *)
(* no tag reaches 0.5.                                                     *)
(***************************************************************************)
C6_WholeQueryFuzzy ==
    (FuzzyReached /\ impl \in {"app", "abhi"}) => FuzzyChoice(QN, 5)

\* the words of the normalized query that take part in app.py's fuzzy pass and
\* have a tag of ratio at least 0.6
MatchingWords ==
    LET ws == Split(QN)
    IN  {k \in 1..Len(ws) : Len(ws[k]) > 3 /\ Passing(ws[k], 6) # {}}

(***************************************************************************)
(* C6 amended.  In abhi/src/knowledge_base.py the fuzzy pass compares the  *)
(* whole normalized query with every normalized tag and returns the owner  *)
(* of the tag of highest ratio among those of ratio at least 0.5, none if  *)
(* no tag reaches 0.5.  In app.py it compares, word by word, the words of  *)
(* the normalized query longer than 3 characters with every normalized     *)
(* tag, cutoff 0.6, and returns the owner of the best tag of the first     *)
(* word that has one, none if no word has one.                             *)
(***************************************************************************)
C6_FuzzyPerFile ==
    FuzzyReached =>
        /\ impl = "abhi" => FuzzyChoice(QN, 5)
        /\ impl = "app" =>
               IF MatchingWords = {} THEN result = NoEntry
               ELSE LET w == CHOOSE k \in MatchingWords : \A l \in MatchingWords : k <= l
                    IN  FuzzyChoice(Split(QN)[w], 6)

\* two tags of different entries reach 0.5 and the better one belongs to the later entry
C6_Witness ==
    /\ Returned
    /\ impl = "abhi"
    /\ via = "fuzzy"
    /\ result = 2
    /\ \E t \in NormTagsOf(1) : \E u \in NormTagsOf(2) :
           Reaches(t, QN, 5) /\ ~NotBelow(t, u, QN)

\* the texts the fuzzy pass compares with the tags
ComparedTexts ==
    IF impl = "app" THEN {Split(QN)[k] : k \in 1..Len(Split(QN))} ELSE {QN}

\* the tags of entry i as the fuzzy pass of the called file sees them
FuzzyTagsOf(i) ==
    IF impl = "utils" THEN {TagsOf(i)[k] : k \in 1..Len(TagsOf(i))} ELSE NormTagsOf(i)

\* 2*M/T >= 0.5, M the matched characters and T the total length of t and c
HalfOrMore(t, c) ==
    LET M == matches(t, c, 0, Len(t), 0, Len(c))
        T == Len(t) + Len(c)
    IN  IF T = 0 THEN TRUE ELSE 4 * M >= T

(***************************************************************************)
(* C7.  Whenever get_relevant_info returns through the fuzzy pass, the     *)
(* ratio 2*M/T of a compared text and a tag of the returned entry is at    *)
(* least 0.5; if every tag stays strictly below 0.5 against every compared *)
(* text, the fuzzy pass returns nothing.                                   *)
(***************************************************************************)
C7_FuzzyRatioAtLeastHalf ==
    Returned =>
        /\ via = "fuzzy" =>
               /\ result \in Positions
               /\ \E c \in ComparedTexts : \E t \in FuzzyTagsOf(result) : HalfOrMore(t, c)
        /\ (\A c \in ComparedTexts : \A i \in Positions : \A t \in FuzzyTagsOf(i) :
                ~HalfOrMore(t, c)) => via # "fuzzy"

\* the fuzzy pass returns an entry whose best tag has a ratio of exactly 0.5
C7_Witness ==
    /\ Returned
    /\ impl = "abhi"
    /\ via = "fuzzy"
    /\ \A t \in NormTagsOf(result) :
           4 * matches(t, QN, 0, Len(t), 0, Len(QN)) <= Len(t) + Len(QN)

(***************************************************************************)
(* C8.  With an empty FAQ list get_relevant_info returns None for every    *)
(* query, at the first statement: the query is not even normalized.        *)
(***************************************************************************)
C8_EmptyFaqsReturnNone ==
    (Returned /\ faqs = <<>>) =>
        /\ result = NoEntry
        /\ via = "empty"
        /\ q_norm = <<>>

\* a non-empty query against the empty list
C8_Witness ==
    /\ Returned
    /\ faqs = <<>>
    /\ normalize(query) # <<>>
    /\ result = NoEntry

(***************************************************************************)
(* C9.  For a list holding the single entry E and a query that is one of   *)
(* the patterns of E as written, get_relevant_info returns E.              *)
(***************************************************************************)
C9_PatternReflexive ==
    (Returned /\ Len(faqs) = 1 /\ \E k \in 1..Len(PatternsOf(1)) : PatternsOf(1)[k] = query) =>
        result = 1

\* the query is a pattern of E written with a capital and a leading blank
C9_Witness ==
    /\ Returned
    /\ Len(faqs) = 1
    /\ \E k \in 1..Len(PatternsOf(1)) : PatternsOf(1)[k] = query
    /\ query # normalize(query)
    /\ result = 1

\* the FAQ list with every pattern and every tag in lower case
LowerFaqs ==
    [i \in Positions |->
        [key \in DOMAIN faqs[i] |->
            [k \in 1..Len(faqs[i][key]) |-> Lower(faqs[i][key][k])]]]

\* what the called file returns for the list fs and the query q
ReturnOf(name, fs, q) ==
    CASE name = "app" -> app_get_relevant_info(fs, q).result
      [] name = "abhi" -> abhi_get_relevant_info(fs, q).result
      [] name = "utils" -> utils_get_relevant_info(fs, q).result

(***************************************************************************)
(* C10.  Matching is case-insensitive in every pass: the entry returned    *)
(* is the one returned when the query, the patterns and the tags are all   *)
(* written in lower case.                                                  *)
(***************************************************************************)
C10_CaseInsensitive ==
    Returned => result = ReturnOf(impl, LowerFaqs, Lower(query))

\* C10 restricted to the two files that normalize the tags
C10_CaseInsensitiveWhereTagsNormalized ==
    (Returned /\ impl \in {"app", "abhi"}) => result = ReturnOf(impl, LowerFaqs, Lower(query))

(***************************************************************************)
(* KnowledgeBase.get_question_type and KnowledgeBase.extract_specific_     *)
(* answer of src/app.py.  answer_facts is a sequence of <<key, value>>     *)
(* pairs in insertion order; a value is <<"str", s>> or <<"int", n>>.      *)
(***************************************************************************)

\* self.question_keywords, in declaration order: <<category, trigger keywords>>
question_keywords ==
    << <<"phone", <<<<"p", "h", "o", "n", "e">>,
            <<"c", "a", "l", "l">>,
            <<"c", "o", "n", "t", "a", "c", "t", " ", "n", "u", "m", "b", "e", "r">>,
            <<"t", "e", "l", "e", "p", "h", "o", "n", "e">>,
            <<"m", "o", "b", "i", "l", "e">>,
            <<"n", "u", "m", "b", "e", "r">>,
            <<"U+0D2B", "U+0D4B", "U+0D7A">>,
            <<"U+0D28", "U+0D2E", "U+0D4D", "U+0D2A", "U+0D7C">>,
            <<"U+0D35", "U+0D3F", "U+0D33", "U+0D3F", "U+0D15", "U+0D4D", "U+0D15", "U+0D3E", "U+0D7B">>>>>>,
       <<"email", <<<<"e", "m", "a", "i", "l">>,
            <<"m", "a", "i", "l">>,
            <<"e", "-", "m", "a", "i", "l">>,
            <<"U+0D07", "U+0D2E", "U+0D46", "U+0D2F", "U+0D3F", "U+0D7D">>,
            <<"U+0D2E", "U+0D46", "U+0D2F", "U+0D3F", "U+0D7D">>>>>>,
       <<"address", <<<<"a", "d", "d", "r", "e", "s", "s">>,
            <<"l", "o", "c", "a", "t", "i", "o", "n">>,
            <<"w", "h", "e", "r", "e">>,
            <<"p", "l", "a", "c", "e">>,
            <<"s", "i", "t", "u", "a", "t", "e", "d">>,
            <<"U+0D0E", "U+0D35", "U+0D3F", "U+0D1F", "U+0D46">>,
            <<"U+0D38", "U+0D4D", "U+0D25", "U+0D32", "U+0D02">>,
            <<"U+0D05", "U+0D21", "U+0D4D", "U+0D30", "U+0D38", "U+0D4D">>>>>>,
       <<"website", <<<<"w", "e", "b", "s", "i", "t", "e">>,
            <<"s", "i", "t", "e">>,
            <<"u", "r", "l">>,
            <<"w", "e", "b">>,
            <<"o", "n", "l", "i", "n", "e">>,
            <<"U+0D35", "U+0D46", "U+0D2C", "U+0D4D", "U+0D38", "U+0D48", "U+0D31", "U+0D4D", "U+0D31", "U+0D4D">>>>>>,
       <<"timing", <<<<"t", "i", "m", "i", "n", "g">>,
            <<"t", "i", "m", "e">>,
            <<"h", "o", "u", "r", "s">>,
            <<"w", "h", "e", "n">>,
            <<"o", "p", "e", "n">>,
            <<"c", "l", "o", "s", "e">>,
            <<"s", "c", "h", "e", "d", "u", "l", "e">>,
            <<"U+0D38", "U+0D2E", "U+0D2F", "U+0D02">>,
            <<"U+0D0E", "U+0D2A", "U+0D4D", "U+0D2A", "U+0D4B", "U+0D7E">>>>>>,
       <<"working_hours", <<<<"w", "o", "r", "k", "i", "n", "g", " ", "h", "o", "u", "r", "s">>,
            <<"o", "f", "f", "i", "c", "e", " ", "h", "o", "u", "r", "s">>,
            <<"o", "f", "f", "i", "c", "e", " ", "t", "i", "m", "e">>>>>>,
       <<"fee", <<<<"f", "e", "e">>,
            <<"f", "e", "e", "s">>,
            <<"c", "o", "s", "t">>,
            <<"p", "r", "i", "c", "e">>,
            <<"a", "m", "o", "u", "n", "t">>,
            <<"c", "h", "a", "r", "g", "e">>,
            <<"U+0D2B", "U+0D40", "U+0D38", "U+0D4D">>,
            <<"U+0D2A", "U+0D23", "U+0D02">>,
            <<"U+0D24", "U+0D41", "U+0D15">>>>>>,
       <<"tuition", <<<<"t", "u", "i", "t", "i", "o", "n">>,
            <<"t", "u", "i", "t", "i", "o", "n", " ", "f", "e", "e">>>>>>,
       <<"hostel_fee", <<<<"h", "o", "s", "t", "e", "l", " ", "f", "e", "e">>,
            <<"h", "o", "s", "t", "e", "l", " ", "c", "h", "a", "r", "g", "e">>,
            <<"a", "c", "c", "o", "m", "m", "o", "d", "a", "t", "i", "o", "n", " ", "f", "e", "e">>>>>>,
       <<"courses", <<<<"c", "o", "u", "r", "s", "e">>,
            <<"c", "o", "u", "r", "s", "e", "s">>,
            <<"p", "r", "o", "g", "r", "a", "m">>,
            <<"p", "r", "o", "g", "r", "a", "m", "m", "e", "s">>,
            <<"b", "r", "a", "n", "c", "h">>,
            <<"d", "e", "p", "a", "r", "t", "m", "e", "n", "t">>,
            <<"s", "t", "r", "e", "a", "m">>,
            <<"U+0D15", "U+0D4B", "U+0D34", "U+0D4D", "U+0D38", "U+0D4D">>,
            <<"U+0D2C", "U+0D4D", "U+0D30", "U+0D3E", "U+0D1E", "U+0D4D", "U+0D1A", "U+0D4D">>>>>>,
       <<"seats", <<<<"s", "e", "a", "t", "s">>,
            <<"i", "n", "t", "a", "k", "e">>,
            <<"c", "a", "p", "a", "c", "i", "t", "y">>,
            <<"h", "o", "w", " ", "m", "a", "n", "y", " ", "s", "t", "u", "d", "e", "n", "t", "s">>>>>>,
       <<"duration", <<<<"d", "u", "r", "a", "t", "i", "o", "n">>,
            <<"y", "e", "a", "r", "s">>,
            <<"h", "o", "w", " ", "l", "o", "n", "g">>,
            <<"p", "e", "r", "i", "o", "d">>>>>>,
       <<"admission", <<<<"a", "d", "m", "i", "s", "s", "i", "o", "n">>,
            <<"a", "p", "p", "l", "y">>,
            <<"j", "o", "i", "n">>,
            <<"e", "n", "r", "o", "l", "l">>,
            <<"r", "e", "g", "i", "s", "t", "r", "a", "t", "i", "o", "n">>,
            <<"U+0D05", "U+0D21", "U+0D4D", "U+0D2E", "U+0D3F", "U+0D37", "U+0D7B">>,
            <<"U+0D1A", "U+0D47", "U+0D30", "U+0D3E", "U+0D7B">>>>>>,
       <<"eligibility", <<<<"e", "l", "i", "g", "i", "b", "i", "l", "i", "t", "y">>,
            <<"q", "u", "a", "l", "i", "f", "i", "c", "a", "t", "i", "o", "n">>,
            <<"r", "e", "q", "u", "i", "r", "e", "m", "e", "n", "t">>,
            <<"c", "r", "i", "t", "e", "r", "i", "a">>,
            <<"w", "h", "o", " ", "c", "a", "n", " ", "a", "p", "p", "l", "y">>>>>>,
       <<"documents", <<<<"d", "o", "c", "u", "m", "e", "n", "t", "s">>,
            <<"p", "a", "p", "e", "r", "s">>,
            <<"c", "e", "r", "t", "i", "f", "i", "c", "a", "t", "e", "s">>,
            <<"r", "e", "q", "u", "i", "r", "e", "d", " ", "d", "o", "c", "u", "m", "e", "n", "t", "s">>>>>>,
       <<"hostel", <<<<"h", "o", "s", "t", "e", "l">>,
            <<"a", "c", "c", "o", "m", "m", "o", "d", "a", "t", "i", "o", "n">>,
            <<"s", "t", "a", "y", "i", "n", "g">>,
            <<"r", "o", "o", "m">>,
            <<"U+0D39", "U+0D4B", "U+0D38", "U+0D4D", "U+0D31", "U+0D4D", "U+0D31", "U+0D7D">>,
            <<"U+0D24", "U+0D3E", "U+0D2E", "U+0D38", "U+0D02">>>>>>,
       <<"library", <<<<"l", "i", "b", "r", "a", "r", "y">>,
            <<"b", "o", "o", "k", "s">>,
            <<"r", "e", "a", "d", "i", "n", "g", " ", "r", "o", "o", "m">>,
            <<"U+0D32", "U+0D48", "U+0D2C", "U+0D4D", "U+0D30", "U+0D31", "U+0D3F">>,
            <<"U+0D2A", "U+0D41", "U+0D38", "U+0D4D", "U+0D24", "U+0D15", "U+0D02">>>>>>,
       <<"canteen", <<<<"c", "a", "n", "t", "e", "e", "n">>,
            <<"f", "o", "o", "d">>,
            <<"m", "e", "s", "s">>,
            <<"c", "a", "f", "e", "t", "e", "r", "i", "a">>,
            <<"U+0D15", "U+0D4D", "U+0D2F", "U+0D3E", "U+0D28", "U+0D4D", "U+0D31", "U+0D40", "U+0D7B">>,
            <<"U+0D2D", "U+0D15", "U+0D4D", "U+0D37", "U+0D23", "U+0D02">>>>>>,
       <<"lab", <<<<"l", "a", "b">>,
            <<"l", "a", "b", "o", "r", "a", "t", "o", "r", "y">>,
            <<"p", "r", "a", "c", "t", "i", "c", "a", "l">>,
            <<"U+0D32", "U+0D3E", "U+0D2C", "U+0D4D">>>>>>,
       <<"sports", <<<<"s", "p", "o", "r", "t", "s">>,
            <<"g", "a", "m", "e", "s">>,
            <<"p", "l", "a", "y", "g", "r", "o", "u", "n", "d">>,
            <<"g", "r", "o", "u", "n", "d">>,
            <<"U+0D15", "U+0D33", "U+0D3F">>,
            <<"U+0D38", "U+0D4D", "U+0D2A", "U+0D4B", "U+0D7C", "U+0D1F", "U+0D4D", "U+0D38", "U+0D4D">>>>>>,
       <<"wifi", <<<<"w", "i", "f", "i">>,
            <<"i", "n", "t", "e", "r", "n", "e", "t">>,
            <<"n", "e", "t", "w", "o", "r", "k">>,
            <<"U+0D35", "U+0D48", "U+0D2B", "U+0D48">>>>>>,
       <<"placement", <<<<"p", "l", "a", "c", "e", "m", "e", "n", "t">>,
            <<"j", "o", "b">>,
            <<"r", "e", "c", "r", "u", "i", "t">>,
            <<"c", "o", "m", "p", "a", "n", "y">>,
            <<"c", "a", "r", "e", "e", "r">>,
            <<"U+0D2A", "U+0D4D", "U+0D32", "U+0D47", "U+0D38", "U+0D4D", "U+0D2E", "U+0D46", "U+0D28", "U+0D4D", "U+0D31", "U+0D4D">>,
            <<"U+0D1C", "U+0D4B", "U+0D32", "U+0D3F">>>>>>,
       <<"salary", <<<<"s", "a", "l", "a", "r", "y">>,
            <<"p", "a", "c", "k", "a", "g", "e">>,
            <<"c", "t", "c">>,
            <<"o", "f", "f", "e", "r">>,
            <<"U+0D36", "U+0D2E", "U+0D4D", "U+0D2A", "U+0D33", "U+0D02">>>>>>,
       <<"companies", <<<<"c", "o", "m", "p", "a", "n", "i", "e", "s">>,
            <<"r", "e", "c", "r", "u", "i", "t", "e", "r", "s">>,
            <<"w", "h", "i", "c", "h", " ", "c", "o", "m", "p", "a", "n", "i", "e", "s">>>>>>,
       <<"bus", <<<<"b", "u", "s">>,
            <<"t", "r", "a", "n", "s", "p", "o", "r", "t">>,
            <<"r", "o", "u", "t", "e">>,
            <<"v", "e", "h", "i", "c", "l", "e">>,
            <<"U+0D2C", "U+0D38", "U+0D4D">>>>>>,
       <<"principal", <<<<"p", "r", "i", "n", "c", "i", "p", "a", "l">>,
            <<"h", "e", "a", "d">>,
            <<"d", "i", "r", "e", "c", "t", "o", "r">>,
            <<"U+0D2A", "U+0D4D", "U+0D30", "U+0D3F", "U+0D7B", "U+0D38", "U+0D3F", "U+0D2A", "U+0D4D", "U+0D2A", "U+0D7D">>>>>>,
       <<"faculty", <<<<"f", "a", "c", "u", "l", "t", "y">>,
            <<"t", "e", "a", "c", "h", "e", "r", "s">>,
            <<"p", "r", "o", "f", "e", "s", "s", "o", "r", "s">>,
            <<"s", "t", "a", "f", "f">>,
            <<"U+0D1F", "U+0D40", "U+0D1A", "U+0D4D", "U+0D1A", "U+0D7C">>,
            <<"U+0D05", "U+0D27", "U+0D4D", "U+0D2F", "U+0D3E", "U+0D2A", "U+0D15", "U+0D7C">>>>>>,
       <<"about", <<<<"a", "b", "o", "u", "t">>,
            <<"t", "e", "l", "l", " ", "m", "e", " ", "a", "b", "o", "u", "t">>,
            <<"w", "h", "a", "t", " ", "i", "s">>,
            <<"i", "n", "f", "o">>,
            <<"i", "n", "f", "o", "r", "m", "a", "t", "i", "o", "n">>,
            <<"U+0D0E", "U+0D28", "U+0D4D", "U+0D24", "U+0D3E", "U+0D23", "U+0D4D">>,
            <<"U+0D15", "U+0D41", "U+0D31", "U+0D3F", "U+0D1A", "U+0D4D", "U+0D1A", "U+0D4D">>>>>>,
       <<"facilities", <<<<"f", "a", "c", "i", "l", "i", "t", "i", "e", "s">>,
            <<"a", "m", "e", "n", "i", "t", "i", "e", "s">>,
            <<"w", "h", "a", "t", " ", "f", "a", "c", "i", "l", "i", "t", "i", "e", "s">>,
            <<"U+0D38", "U+0D57", "U+0D15", "U+0D30", "U+0D4D", "U+0D2F", "U+0D19", "U+0D4D", "U+0D19", "U+0D7E">>>>>> >>

\* type_to_fact_keys without its "about" row: <<category, fact-key fragments>>
fixed_fact_keys ==
    << <<"phone", <<<<"p", "h", "o", "n", "e">>, <<"c", "o", "n", "t", "a", "c", "t", "_", "p", "h", "o", "n", "e">>, <<"t", "e", "l", "e", "p", "h", "o", "n", "e">>, <<"m", "o", "b", "i", "l", "e">>>>>>,
       <<"email", <<<<"e", "m", "a", "i", "l">>, <<"c", "o", "n", "t", "a", "c", "t", "_", "e", "m", "a", "i", "l">>, <<"m", "a", "i", "l">>>>>>,
       <<"address", <<<<"a", "d", "d", "r", "e", "s", "s">>, <<"f", "u", "l", "l", "_", "a", "d", "d", "r", "e", "s", "s">>, <<"l", "o", "c", "a", "t", "i", "o", "n">>>>>>,
       <<"website", <<<<"w", "e", "b", "s", "i", "t", "e">>, <<"u", "r", "l">>, <<"s", "i", "t", "e">>>>>>,
       <<"timing", <<<<"t", "i", "m", "i", "n", "g">>, <<"c", "o", "l", "l", "e", "g", "e", "_", "t", "i", "m", "i", "n", "g">>, <<"o", "f", "f", "i", "c", "e", "_", "t", "i", "m", "i", "n", "g">>, <<"h", "o", "u", "r", "s">>, <<"l", "i", "b", "r", "a", "r", "y", "_", "t", "i", "m", "i", "n", "g">>>>>>,
       <<"fee", <<<<"f", "e", "e">>, <<"t", "u", "i", "t", "i", "o", "n", "_", "f", "e", "e">>, <<"t", "o", "t", "a", "l", "_", "f", "e", "e">>, <<"f", "e", "e", "s">>>>>>,
       <<"hostel_fee", <<<<"h", "o", "s", "t", "e", "l", "_", "f", "e", "e">>, <<"h", "o", "s", "t", "e", "l", "_", "c", "h", "a", "r", "g", "e">>>>>>,
       <<"courses", <<<<"c", "o", "u", "r", "s", "e", "s">>, <<"p", "r", "o", "g", "r", "a", "m", "s">>, <<"b", "r", "a", "n", "c", "h", "e", "s">>>>>>,
       <<"seats", <<<<"s", "e", "a", "t", "s">>, <<"i", "n", "t", "a", "k", "e">>, <<"i", "n", "t", "a", "k", "e", "_", "p", "e", "r", "_", "b", "r", "a", "n", "c", "h">>>>>>,
       <<"duration", <<<<"d", "u", "r", "a", "t", "i", "o", "n">>, <<"y", "e", "a", "r", "s">>>>>>,
       <<"admission", <<<<"a", "d", "m", "i", "s", "s", "i", "o", "n", "_", "p", "r", "o", "c", "e", "s", "s">>, <<"h", "o", "w", "_", "t", "o", "_", "a", "p", "p", "l", "y">>>>>>,
       <<"eligibility", <<<<"e", "l", "i", "g", "i", "b", "i", "l", "i", "t", "y">>, <<"r", "e", "q", "u", "i", "r", "e", "m", "e", "n", "t">>, <<"m", "i", "n", "i", "m", "u", "m", "_", "m", "a", "r", "k", "s">>>>>>,
       <<"hostel", <<<<"h", "o", "s", "t", "e", "l", "_", "a", "v", "a", "i", "l", "a", "b", "i", "l", "i", "t", "y">>, <<"f", "a", "c", "i", "l", "i", "t", "i", "e", "s">>, <<"r", "o", "o", "m", "_", "t", "y", "p", "e">>>>>>,
       <<"library", <<<<"l", "i", "b", "r", "a", "r", "y", "_", "t", "i", "m", "i", "n", "g">>, <<"t", "o", "t", "a", "l", "_", "b", "o", "o", "k", "s">>, <<"s", "e", "a", "t", "i", "n", "g", "_", "c", "a", "p", "a", "c", "i", "t", "y">>>>>>,
       <<"placement", <<<<"p", "l", "a", "c", "e", "m", "e", "n", "t", "_", "r", "a", "t", "e">>, <<"c", "o", "m", "p", "a", "n", "i", "e", "s">>, <<"t", "o", "p", "_", "c", "o", "m", "p", "a", "n", "i", "e", "s">>>>>>,
       <<"salary", <<<<"h", "i", "g", "h", "e", "s", "t", "_", "p", "a", "c", "k", "a", "g", "e">>, <<"a", "v", "e", "r", "a", "g", "e", "_", "p", "a", "c", "k", "a", "g", "e">>, <<"p", "a", "c", "k", "a", "g", "e">>>>>>,
       <<"principal", <<<<"p", "r", "i", "n", "c", "i", "p", "a", "l", "_", "n", "a", "m", "e">>, <<"n", "a", "m", "e">>>>>> >>


\* any(keyword in query_lower for keyword in keywords)
KeywordHit(keywords, query_lower) ==
    \E k \in 1..Len(keywords) : IsSubstr(keywords[k], query_lower)

\* the category loop putting each detected category in front of the earlier ones
RECURSIVE DetectFromNewestFirst(_, _)
DetectFromNewestFirst(query_lower, c) ==
    IF c > Len(question_keywords) THEN <<>>
    ELSE DetectFromNewestFirst(query_lower, c + 1)
         \o (IF KeywordHit(question_keywords[c][2], query_lower)
             THEN <<question_keywords[c][1]>> ELSE <<>>)

\* the loop of get_question_type over question_keywords.items() from row c
RECURSIVE DetectFrom(_, _)
DetectFrom(query_lower, c) ==
    IF c > Len(question_keywords) THEN <<>>
    ELSE (IF KeywordHit(question_keywords[c][2], query_lower)
          THEN <<question_keywords[c][1]>> ELSE <<>>)
         \o DetectFrom(query_lower, c + 1)

\* KnowledgeBase.get_question_type: detected if detected else ["general"]
get_question_type(q) ==
    LET detected == DetectFrom(Lower(q), 1)
    IN  IF detected = <<>> THEN <<"general">> ELSE detected

\* the slice bound of list(facts.keys())[:3]
AboutKeys == 3

\* list(facts.keys())[:3] if facts else []
about_fact_keys(facts) ==
    [k \in 1..(IF Len(facts) < AboutKeys THEN Len(facts) ELSE AboutKeys) |-> facts[k][1]]

\* the dict type_to_fact_keys built for one call
type_to_fact_keys(facts) == fixed_fact_keys \o << <<"about", about_fact_keys(facts)>> >>

\* q_type in type_to_fact_keys
HasFactKeys(table, q_type) == \E r \in 1..Len(table) : table[r][1] = q_type

\* type_to_fact_keys[q_type]
FactKeysOf(table, q_type) == table[CHOOSE r \in 1..Len(table) : table[r][1] = q_type][2]

\* fact_key in key.lower() or key.lower() in fact_key
KeyHit(fact_key, key) == IsSubstr(fact_key, Lower(key)) \/ IsSubstr(Lower(key), fact_key)

\* for key, value in facts.items(): the position of the first fact whose key
\* hits the fragment, 0 when the loop ends without a return
FactScan(facts, fact_key) ==
    LET hits == {k \in 1..Len(facts) : KeyHit(fact_key, facts[k][1])}
    IN  IF hits = {} THEN 0 ELSE CHOOSE k \in hits : \A j \in hits : k <= j

\* the fragment loop with the fact loop outside it
FragmentScanFactsFirst(facts, frags, f) ==
    LET hits == {k \in 1..Len(facts) : \E g \in 1..Len(frags) : KeyHit(frags[g], facts[k][1])}
    IN  IF hits = {} THEN 0 ELSE CHOOSE k \in hits : \A j \in hits : k <= j

\* for fact_key in type_to_fact_keys[q_type]: from fragment f
RECURSIVE FragmentScan(_, _, _)
FragmentScan(facts, frags, f) ==
    IF f > Len(frags) THEN 0
    ELSE LET k == FactScan(facts, frags[f])
         IN  IF k # 0 THEN k ELSE FragmentScan(facts, frags, f + 1)

\* for q_type in question_types: from type t
RECURSIVE TypeScan(_, _, _, _)
TypeScan(facts, table, question_types, t) ==
    IF t > Len(question_types) THEN 0
    ELSE LET k == IF HasFactKeys(table, question_types[t])
                  THEN FragmentScan(facts, FactKeysOf(table, question_types[t]), 1)
                  ELSE 0
         IN  IF k # 0 THEN k ELSE TypeScan(facts, table, question_types, t + 1)

\* key.lower().replace("_", " ")
UnderscoresToSpaces(s) == [i \in 1..Len(s) |-> IF s[i] = "_" THEN " " ELSE s[i]]

\* the word length a query word must exceed in the direct pass
FactWordLen == 3

\* the direct pass taking words of every length
WordHitAnyLength(word, key) == IsSubstr(word, UnderscoresToSpaces(Lower(key)))

\* len(word) > 3 and word in key_lower
WordHit(word, key) ==
    Len(word) > FactWordLen /\ IsSubstr(word, UnderscoresToSpaces(Lower(key)))

\* the direct pass handing back the first fact when no word hits a key
DirectScanFallsBackToFirst(facts, query_lower) ==
    LET words == Split(query_lower)
        hits  == {k \in 1..Len(facts) : \E w \in 1..Len(words) : WordHit(words[w], facts[k][1])}
    IN  IF hits = {} THEN (IF facts = <<>> THEN 0 ELSE 1)
        ELSE CHOOSE k \in hits : \A j \in hits : k <= j

\* the direct pass: the position of the first fact one of whose query words
\* hits its key, 0 when the loops end without a return
DirectScan(facts, query_lower) ==
    LET words == Split(query_lower)
        hits  == {k \in 1..Len(facts) : \E w \in 1..Len(words) : WordHit(words[w], facts[k][1])}
    IN  IF hits = {} THEN 0 ELSE CHOOSE k \in hits : \A j \in hits : k <= j

\* repr(value): a string comes back inside quotes
PyRepr(v) == IF v[1] = "int" THEN ToString(v[2]) ELSE "'" \o v[2] \o "'"

\* str(value)
PyStr(v) == IF v[1] = "int" THEN ToString(v[2]) ELSE v[2]


\* the argument kb_entry: <<>> is None, <<e>> the entry e
NoneEntry == <<>>

\* the lookup with a placeholder fact, not {}, as its default
FactsOfPlaceholderDefault(entry) ==
    EntryGet(entry, "answer_facts", <<<<<<"?">>, <<"str", "?">>>>>>)

\* kb_entry.get("answer_facts", {})
FactsOf(entry) == EntryGet(entry, "answer_facts", <<>>)

\* extract_specific_answer handing back the key as it was compared, in lower case
extract_returns_lowered_key(q, arg) ==
    IF arg = NoneEntry \/ DOMAIN arg[1] = {} THEN NoAnswer("no_entry", <<>>)
    ELSE LET facts          == FactsOf(arg[1])
             query_lower    == Lower(q)
             question_types == get_question_type(q)
             byType         == TypeScan(facts, type_to_fact_keys(facts), question_types, 1)
             direct         == DirectScan(facts, query_lower)
         IN  IF byType # 0
             THEN Answer(<<PyStr(facts[byType][2])>>, Lower(facts[byType][1]), "category",
                         byType, question_types)
             ELSE IF direct # 0
             THEN Answer(<<PyStr(facts[direct][2])>>, Lower(facts[direct][1]), "direct",
                         direct, question_types)
             ELSE NoAnswer("nothing", question_types)

\* KnowledgeBase.extract_specific_answer
extract_specific_answer(q, arg) ==
    IF arg = NoneEntry \/ DOMAIN arg[1] = {} THEN NoAnswer("no_entry", <<>>)
    ELSE LET facts          == FactsOf(arg[1])
             query_lower    == Lower(q)
             question_types == get_question_type(q)
             byType         == TypeScan(facts, type_to_fact_keys(facts), question_types, 1)
             direct         == DirectScan(facts, query_lower)
         IN  IF byType # 0
             THEN Answer(<<PyStr(facts[byType][2])>>, facts[byType][1], "category",
                         byType, question_types)
             ELSE IF direct # 0
             THEN Answer(<<PyStr(facts[direct][2])>>, facts[direct][1], "direct",
                         direct, question_types)
             ELSE NoAnswer("nothing", question_types)

(***************************************************************************)
(* Inputs of the fact model: entries as a FAQ file holds them, some of     *)
(* them lacking keys, and the queries asked of them.                       *)
(***************************************************************************)

\* the entry of the library example
EntryA ==
    [id |-> "A",
     question_patterns |-> <<<<"l", "i", "b", "r", "a", "r", "y", " ", "h", "o", "u", "r", "s">>>>,
     tags |-> <<<<"l", "i", "b", "r", "a", "r", "y">>>>,
     answer_facts |-> <<<<<<"l", "i", "b", "r", "a", "r", "y", "_", "t", "i", "m", "i", "n", "g">>, <<"str", "9 to 5">>>>>>]

\* the entry of the courses example
EntryB ==
    [id |-> "B",
     question_patterns |-> <<>>,
     tags |-> <<<<"c", "o", "u", "r", "s", "e", "s">>>>,
     answer_facts |-> <<<<<<"c", "o", "u", "r", "s", "e", "s">>, <<"str", "CS, EEE, ME">>>>>>]

\* no tags key; the fact order differs from the fragment order
EntryC ==
    [id |-> "C",
     question_patterns |-> <<<<"c", "o", "n", "t", "a", "c", "t">>>>,
     answer_facts |-> <<<<<<"m", "o", "b", "i", "l", "e">>, <<"str", "1">>>>, <<<<"p", "h", "o", "n", "e">>, <<"int", 2>>>>>>]

\* no question_patterns key; a fact key written with a capital
EntryD ==
    [id |-> "D",
     tags |-> <<<<"P", "h", "o", "n", "e">>>>,
     answer_facts |-> <<<<<<"P", "h", "o", "n", "e">>, <<"str", "x">>>>>>]

\* all three collections empty
EntryE ==
    [id |-> "E",
     question_patterns |-> <<>>,
     tags |-> <<>>,
     answer_facts |-> <<>>]

\* the empty JSON object
EntryF ==
    [k \in {} |-> <<>>]

\* no answer_facts key
EntryG ==
    [id |-> "G",
     question_patterns |-> <<<<"b", "o", "o", "k", "s">>>>,
     tags |-> <<<<"h", "o", "s", "t", "e", "l">>>>]

\* facts that only the direct pass or a later fragment reaches
EntryH ==
    [id |-> "H",
     question_patterns |-> <<<<"f", "e", "e">>>>,
     tags |-> <<<<"b", "o", "o", "k", "s">>>>,
     answer_facts |-> <<<<<<"t", "o", "t", "a", "l", "_", "b", "o", "o", "k", "s">>, <<"int", 5>>>>, <<<<"E", "x", "a", "m", "_", "F", "e", "e">>, <<"str", "1,500">>>>, <<<<"h", "o", "s", "t", "e", "l", "_", "f", "e", "e">>, <<"str", "15,000">>>>>>]

FactEntries == {EntryA, EntryB, EntryC, EntryD, EntryE, EntryF, EntryG, EntryH}

\* the queries of the fact model
FactQueries ==
    { <<>>,
      <<"a", "b", "o", "u", "t">>,
      <<"p", "h", "o", "n", "e">>,
      <<"P", "H", "O", "N", "E">>,
      <<"l", "i", "b", "r", "a", "r", "y", " ", "h", "o", "u", "r", "s">>,
      <<"c", "o", "r", "s", "e", "s", " ", "a", "v", "a", "i", "l", "a", "b", "l", "e">>,
      <<"c", "o", "u", "r", "s", "e", "s">>,
      <<"c", "o", "n", "t", "a", "c", "t">>,
      <<"x", "y", "z">>,
      <<"X", "Y", "Z", " ", "B", "O", "O", "K", "S", "?">>,
      <<"z", "z", "z", "z", " ", "t", "o", "t", "a", "l">>,
      <<"h", "o", "s", "t", "e", "l", " ", "f", "e", "e">>,
      <<"w", "i", "f", "i">>,
      <<"i", "n", "f", "o">>,
      <<"m", "o", "b", "i", "l", "e", " ", "n", "u", "m", "b", "e", "r">>,
      <<"e", "x", "a", "m">>,
      <<"Z", "Z", "Z", "Z", " ", "T", "o", "t", "a", "l">>,
      <<"e", "x", "a", "m", " ", "t", "o", "t", "a", "l">>,
      <<"h", "o", "s", "t", "l", " ", "c", "o", "r", "s", "e", "s">>,
      <<"t", "o", "t">>,
      <<"b", "o", "o", "k", "s">>,
      <<"T", "e", "l", "l", " ", "m", "e", " ", "A", "b", "o", "u", "t", " ", "i", "t">>,
      <<"U+0D2B", "U+0D4B", "U+0D7A">>,
      <<"w", "h", "a", "t", " ", "i", "s", " ", "t", "h", "e", " ", "f", "e", "e">>,
      <<"E", "X", "A", "M", " ", "p", "a", "p", "e", "r", "s">>,
      <<"t", "h", "e", " ", "F", "E", "E">> }

\* the number of entries of a loaded list of the fact model
MaxFactEntries == 2

FactFaqLists == SeqsUpTo(FactEntries, MaxFactEntries)

(***************************************************************************)
(* The state machine of the fact model: the list is loaded once; each step *)
(* is one call of get_relevant_info, of extract_specific_answer (on None   *)
(* or on an entry of the list) or of get_question_type of src/app.py.      *)
(***************************************************************************)

InitFact ==
    /\ faqs \in FactFaqLists
    /\ query = <<>>
    /\ q_norm = <<>>
    /\ result = NoEntry
    /\ via = "init"
    /\ impl = "none"
    /\ kb_entry = NoEntry
    /\ answer = NoAnswer("init", <<>>)
    /\ types = <<>>
    /\ procs = NoCalls
    /\ frames = NoFrames
    /\ init_session
    /\ NoAudioProcessor

\* the argument kb_entry of a call on position e of the list, 0 for None
EntryArg(e) == IF e = NoEntry THEN NoneEntry ELSE <<faqs[e]>>

FindEntry == \E q \in FactQueries : Call("app", app_get_relevant_info(faqs, q), q)

ExtractSpecificAnswer ==
    \E q \in FactQueries, e \in 0..Len(faqs) :
        /\ Idle
        /\ query' = q
        /\ kb_entry' = e
        /\ answer' = extract_specific_answer(q, EntryArg(e))
        /\ via' = "extract"
        /\ impl' = "app"
        /\ UNCHANGED <<faqs, q_norm, result, types>>
        /\ UNCHANGED concVars
        /\ UNCHANGED appVars

GetQuestionType ==
    \E q \in FactQueries :
        /\ Idle
        /\ query' = q
        /\ types' = get_question_type(q)
        /\ via' = "types"
        /\ impl' = "app"
        /\ UNCHANGED <<faqs, q_norm, result, kb_entry, answer>>
        /\ UNCHANGED concVars
        /\ UNCHANGED appVars

NextFact == FindEntry \/ ExtractSpecificAnswer \/ GetQuestionType \/ Discard

SpecFact == InitFact /\ [][NextFact]_vars

(***************************************************************************)
(* Vocabulary of the properties of the fact model.                         *)
(***************************************************************************)

\* extract_specific_answer has returned
Extracted == via = "extract"

\* get_question_type has returned
Detected == via = "types"

\* the answer_facts of the entry the last extract call was given
FactsGiven == IF kb_entry = NoEntry THEN <<>> ELSE FactsOf(faqs[kb_entry])

FactPositions == 1..Len(FactsGiven)

KeyAt(k) == FactsGiven[k][1]

\* the call returned (None, "")
ReturnedNothing == answer.value = <<>> /\ answer.key = <<>>

\* the call returned the value and the key of the fact at position k
ReturnedFact(k) == answer.value = <<PyStr(FactsGiven[k][2])>> /\ answer.key = KeyAt(k)

\* the categories of the taxonomy, as a set
Categories == {question_keywords[c][1] : c \in 1..Len(question_keywords)}

\* category cat has a trigger keyword inside the lower-cased text q
Triggered(cat, q) ==
    \E c \in 1..Len(question_keywords) :
        /\ question_keywords[c][1] = cat
        /\ \E k \in 1..Len(question_keywords[c][2]) :
               IsSubstr(question_keywords[c][2][k], Lower(q))

(***************************************************************************)
(* C11.  extract_specific_answer on a query among whose categories is      *)
(* "about" never returns (None, "") when the entry has at least one fact,  *)
(* whatever the spelling or letter case of the keys.                       *)
(***************************************************************************)
C11_AboutAlwaysExtracts ==
    (Extracted /\ Triggered("about", query) /\ FactsGiven # <<>>) => ~ReturnedNothing

\* C11 holds where one of the first three keys is written in lower case
C11_AboutExtractsLowerCaseKey ==
    (/\ Extracted
     /\ Triggered("about", query)
     /\ \E k \in FactPositions : k <= AboutKeys /\ Lower(KeyAt(k)) = KeyAt(k))
    => ~ReturnedNothing

\* the fragment list of a category for the entry given: the first three
\* keys for "about", the fixed row otherwise, nothing for a category
\* without a row
FragmentsFor(cat) ==
    IF cat = "about"
    THEN [k \in {j \in FactPositions : j <= AboutKeys} |-> KeyAt(k)]
    ELSE IF \E r \in 1..Len(fixed_fact_keys) : fixed_fact_keys[r][1] = cat
    THEN fixed_fact_keys[CHOOSE r \in 1..Len(fixed_fact_keys) : fixed_fact_keys[r][1] = cat][2]
    ELSE <<>>

\* the rows of the taxonomy that have a trigger keyword inside the
\* lower-cased query
TriggeredRows ==
    LET ql == Lower(query)
    IN  {c \in 1..Len(question_keywords) :
            \E k \in 1..Len(question_keywords[c][2]) : IsSubstr(question_keywords[c][2][k], ql)}

\* a comes before b in the nested order category, fragment, fact
Before(a, b) ==
    \/ a[1] < b[1]
    \/ a[1] = b[1] /\ a[2] < b[2]
    \/ a[1] = b[1] /\ a[2] = b[2] /\ a[3] < b[3]

FirstOf(S) == CHOOSE a \in S : \A b \in S \ {a} : Before(a, b)

\* every <<category row, fragment position, fact position>> of the query
\* and the entry given whose lower-cased key contains the fragment or lies
\* in it
LowerKeyTriples ==
    UNION {LET frags == FragmentsFor(question_keywords[c][1])
           IN  {a \in {<<c, f, k>> : f \in 1..Len(frags), k \in FactPositions} :
                   LET key == Lower(KeyAt(a[3]))
                   IN  IsSubstr(frags[a[2]], key) \/ IsSubstr(key, frags[a[2]])}
           : c \in TriggeredRows}

TriggeredCategories == {question_keywords[c][1] : c \in TriggeredRows}

\* the row of a category in the taxonomy
RowOf(cat) == CHOOSE c \in 1..Len(question_keywords) : question_keywords[c][1] = cat

(***************************************************************************)
(* C13.  get_question_type returns exactly the categories that have a      *)
(* trigger keyword inside the lower-cased query, each once and in the      *)
(* order of the taxonomy; it returns ["general"] if and only if no         *)
(* category has such a keyword.                                            *)
(***************************************************************************)
C13_DetectionInTaxonomyOrder ==
    Detected =>
        /\ (TriggeredCategories = {}) <=> (types = <<"general">>)
        /\ TriggeredCategories # {} =>
               /\ {types[i] : i \in 1..Len(types)} = TriggeredCategories
               /\ \A i, j \in 1..Len(types) : i < j => RowOf(types[i]) < RowOf(types[j])

\* a query that triggers several categories, not in alphabetical order
C13_Witness ==
    /\ Detected
    /\ Cardinality(TriggeredCategories) >= 3
    /\ Len(types) = Cardinality(TriggeredCategories)
    /\ types[1] = "fee"
    /\ types[3] = "hostel"

\* the words of the query, lower-cased
QueryWords == Split(Lower(query))

\* the key of fact k with underscores replaced by spaces, lower-cased
CleanedKey(k) == UnderscoresToSpaces(Lower(KeyAt(k)))

\* word w of the query is longer than 3 characters and lies inside the
\* cleaned key of fact k
LongWordInKey(w, k) == Len(QueryWords[w]) > 3 /\ IsSubstr(QueryWords[w], CleanedKey(k))

\* the facts some long word of the query points at
DirectKeys ==
    LET words == QueryWords
    IN  {k \in FactPositions :
            LET key == CleanedKey(k)
            IN  \E w \in 1..Len(words) : Len(words[w]) > 3 /\ IsSubstr(words[w], key)}

(***************************************************************************)
(* C14.  When no category-based match exists, the direct pass returns the  *)
(* fact of the first key, in insertion order, for which some whitespace-   *)
(* separated word of the query longer than 3 characters is a substring of  *)
(* the key with underscores replaced by spaces (query and key compared in  *)
(* lower case); words of 3 characters or fewer never cause a match.        *)
(***************************************************************************)
C14_DirectPassFirstKey ==
    (Extracted /\ LowerKeyTriples = {}) =>
        LET hits == DirectKeys
        IN  IF hits # {}
            THEN ReturnedFact(CHOOSE k \in hits : \A j \in hits : k <= j)
            ELSE ReturnedNothing

\* the first word of the query points at a later fact than its second word,
\* and the earlier fact is returned
C14_Witness ==
    /\ Extracted
    /\ LowerKeyTriples = {}
    /\ \E k1, k2 \in FactPositions :
           /\ k1 < k2
           /\ Len(QueryWords) = 2
           /\ LongWordInKey(1, k2) /\ ~LongWordInKey(1, k1)
           /\ LongWordInKey(2, k1)
           /\ ReturnedFact(k1)

\* a category triggered by the query for which type_to_fact_keys has no row
SomeCategoryWithoutFragments ==
    \E cat \in TriggeredCategories :
        cat # "about" /\ \A r \in 1..Len(fixed_fact_keys) : fixed_fact_keys[r][1] # cat

(***************************************************************************)
(* C15.  extract_specific_answer returns (None, "") exactly when neither   *)
(* the category step nor the direct pass finds a fact; so it does for an   *)
(* entry with no facts and for a missing entry, and a detected category    *)
(* without a fragment list is passed over.                                 *)
(***************************************************************************)
C15_NothingExactlyWhenNothingFound ==
    Extracted =>
        /\ ReturnedNothing <=> (LowerKeyTriples = {} /\ DirectKeys = {})
        /\ (kb_entry = NoEntry \/ FactsGiven = <<>>) => ReturnedNothing

\* an entry with facts, a query whose category has no fragment list, and
\* nothing returned
C15_Witness ==
    /\ Extracted
    /\ kb_entry # NoEntry
    /\ FactsGiven # <<>>
    /\ SomeCategoryWithoutFragments
    /\ ReturnedNothing

\* get_relevant_info of src/app.py has returned
Found == via \in {"empty", "pattern", "tag", "fuzzy", "none"}

EntryKeys == {"question_patterns", "tags", "answer_facts"}

\* the entry with an empty collection under each key it lacks
Filled(entry) ==
    [k \in DOMAIN entry \cup EntryKeys |-> IF k \in DOMAIN entry THEN entry[k] ELSE <<>>]

FilledFaqs == [i \in Positions |-> Filled(faqs[i])]

\* some entry of the list lacks one of the three keys
SomeKeyMissing == \E i \in Positions : ~(EntryKeys \subseteq DOMAIN faqs[i])

(***************************************************************************)
(* C16.  An entry that lacks question_patterns, tags or answer_facts is    *)
(* treated as having an empty collection there: get_relevant_info and      *)
(* extract_specific_answer return what they return when the missing keys   *)
(* hold empty collections, and an entry with a pattern or a tag that hits  *)
(* keeps being matched whatever keys it lacks.                             *)
(***************************************************************************)
C16_MissingKeysAreEmpty ==
    /\ Found =>
           /\ result = app_get_relevant_info(FilledFaqs, query).result
           /\ (\E i \in Positions : EntryHits(i) \/ TagInQuery(i)) => result # NoEntry
    /\ (Extracted /\ kb_entry # NoEntry) =>
           LET filled == extract_specific_answer(query, <<Filled(faqs[kb_entry])>>)
           IN  answer.value = filled.value /\ answer.key = filled.key

\* an entry without the tags key returned by a pattern match
C16_Witness ==
    /\ Found
    /\ result # NoEntry
    /\ via = "pattern"
    /\ query # <<>>
    /\ "tags" \notin DOMAIN faqs[result]
    /\ "question_patterns" \in DOMAIN faqs[result]

\* entry i has no pattern, no tag and no fact
AllEmpty(i) ==
    /\ PatternsOf(i) = <<>>
    /\ TagsOf(i) = <<>>
    /\ FactsOf(faqs[i]) = <<>>

(***************************************************************************)
(* C17.  An entry whose question_patterns, tags and answer_facts are all   *)
(* empty is never returned by get_relevant_info, whatever the query and    *)
(* the list, and extract_specific_answer on it returns (None, "").         *)
(***************************************************************************)
C17_EmptyEntryMatchesNothing ==
    /\ (Found /\ result # NoEntry) => ~AllEmpty(result)
    /\ (Extracted /\ kb_entry # NoEntry /\ AllEmpty(kb_entry)) => ReturnedNothing

\* a list that starts with an empty entry, which the search passes over to
\* return the entry behind it
C17_Witness ==
    /\ Found
    /\ Len(faqs) = 2
    /\ AllEmpty(1)
    /\ "tags" \in DOMAIN faqs[1]
    /\ result = 2

(***************************************************************************)
(* C20.  get_relevant_info returns None or one entry of the list it was    *)
(* given: never a score, a list of candidates or an entry that is not in   *)
(* the list.                                                               *)
(***************************************************************************)
C20_NoneOrAnEntryOfTheList ==
    Returned => (result = NoEntry \/ result \in Positions)

\* an entry with two tags handed back through the second of them
C20_Witness ==
    /\ Returned
    /\ via = "tag"
    /\ result \in Positions
    /\ Len(TagsOf(result)) = 2
    /\ ~IsSubstr(normalize(TagsOf(result)[1]), QN)
    /\ IsSubstr(normalize(TagsOf(result)[2]), QN)

(***************************************************************************)
(* C18.  No call of get_relevant_info or extract_specific_answer changes   *)
(* the loaded list or an entry in it: after any sequence of calls the      *)
(* entries, their patterns, tags and facts are what was loaded.            *)
(***************************************************************************)
C18_CallsLeaveEntriesAlone == [][faqs' = faqs]_vars

\* a call has read an entry whose tag is not in normalized form and has
\* handed that entry back
C18_Witness ==
    /\ Found
    /\ result # NoEntry
    /\ \E k \in 1..Len(TagsOf(result)) : normalize(TagsOf(result)[k]) # TagsOf(result)[k]

(***************************************************************************)
(* Concurrent calls.  Two request handlers call get_relevant_info and      *)
(* extract_specific_answer of src/app.py on the same KnowledgeBase with no *)
(* lock; a step is one pass of a call, and the steps of the two calls      *)
(* interleave freely.  Each call keeps its arguments and locals in its own *)
(* frame; self.faqs and self.question_keywords are only read.              *)
(***************************************************************************)

\* the number of entries of a loaded list of the concurrent model
MaxConcEntries == 1

ConcEntries == {EntryB, EntryH}

ConcFaqLists == SeqsUpTo(ConcEntries, MaxConcEntries)

ConcQueries ==
    { <<"c", "o", "u", "r", "s", "e", "s">>,
      <<"c", "o", "r", "s", "e", "s", " ", "a", "v", "a", "i", "l", "a", "b", "l", "e">>,
      <<"e", "x", "a", "m", " ", "t", "o", "t", "a", "l">>,
      <<"h", "o", "s", "t", "e", "l", " ", "f", "e", "e">> }

\* the frame shared by every call, as if the locals were attributes of self
FrameShared(p) == 1

\* the frame of the call of handler p: a Python call has a frame of its own
Frame(p) == p

InitConc ==
    /\ faqs \in ConcFaqLists
    /\ query = <<>>
    /\ q_norm = <<>>
    /\ result = NoEntry
    /\ via = "init"
    /\ impl = "none"
    /\ kb_entry = NoEntry
    /\ answer = NoAnswer("init", <<>>)
    /\ types = <<>>
    /\ procs = NoCalls
    /\ frames = NoFrames
    /\ init_session
    /\ NoAudioProcessor

seqVars == <<faqs, query, q_norm, result, via, impl, kb_entry, answer, types>>

Other(p) == CHOOSE o \in Callers : o # p

\* handler p is inside a call
Running(p) == procs[p].pc \notin {"idle", "done"}

At(p, label) == procs[p].pc = label

\* handler p enters a call with its arguments in a fresh frame
Enter(p, kind, label, q, e) ==
    /\ At(p, "idle")
    /\ procs' = [procs EXCEPT ![p] = [pc |-> label, kind |-> kind, query |-> q, kb_entry |-> e,
                                      ret |-> NoReturn, overlap |-> FALSE]]
    /\ frames' = [frames EXCEPT ![Frame(p)] = [EmptyFrame EXCEPT !.query = q, !.kb_entry = e]]
    /\ UNCHANGED seqVars
    /\ UNCHANGED appVars

\* the call of handler p goes on to the pass label with the locals fr
Goto(p, label, fr) ==
    /\ procs' = [procs EXCEPT ![p].pc = label, ![p].overlap = @ \/ Running(Other(p))]
    /\ frames' = [frames EXCEPT ![Frame(p)] = fr]
    /\ UNCHANGED seqVars
    /\ UNCHANGED appVars

\* the call of handler p returns r and its frame is gone
Return(p, r) ==
    /\ procs' = [procs EXCEPT ![p].pc = "done", ![p].ret = r,
                              ![p].overlap = @ \/ Running(Other(p))]
    /\ frames' = [frames EXCEPT ![Frame(p)] = EmptyFrame]
    /\ UNCHANGED seqVars
    /\ UNCHANGED appVars

\* what get_relevant_info hands back: an entry of the list or None
EntryReturn(i) == <<"entry", i>>

\* what extract_specific_answer hands back: (str(value), key) of fact k
FactReturn(facts, k) ==
    IF k = 0 THEN <<"fact", <<>>, <<>>>> ELSE <<"fact", <<PyStr(facts[k][2])>>, facts[k][1]>>

CallFind == \E p \in Callers, q \in ConcQueries : Enter(p, "find", "find_begin", q, NoEntry)

CallExtract ==
    \E p \in Callers, q \in ConcQueries, e \in 0..Len(faqs) :
        Enter(p, "extract", "extract_begin", q, e)

\* if not self.faqs: return None; q_norm = self._normalize(query)
FindBegin ==
    \E p \in Callers :
        /\ At(p, "find_begin")
        /\ LET fr == frames[Frame(p)]
           IN  IF faqs = <<>> THEN Return(p, EntryReturn(NoEntry))
               ELSE Goto(p, "find_patterns", [fr EXCEPT !.q_norm = normalize(fr.query)])

\* priority 1: the pattern loop
FindPatterns ==
    \E p \in Callers :
        /\ At(p, "find_patterns")
        /\ LET fr == frames[Frame(p)]
               byPattern == PatternScan(faqs, fr.q_norm, 1)
           IN  IF byPattern # NoEntry THEN Return(p, EntryReturn(byPattern))
               ELSE Goto(p, "find_build_tags", fr)

\* the loop that fills all_tags and tag_to_entry
FindBuildTags ==
    \E p \in Callers :
        /\ At(p, "find_build_tags")
        /\ Goto(p, "find_tags", [frames[Frame(p)] EXCEPT !.pairs = TagPairs(faqs, 1)])

\* the tag substring loop
FindTags ==
    \E p \in Callers :
        /\ At(p, "find_tags")
        /\ LET fr == frames[Frame(p)]
               byTag == TagSubstringScan(fr.pairs, fr.q_norm)
           IN  IF byTag # NoEntry THEN Return(p, EntryReturn(byTag))
               ELSE Goto(p, "find_fuzzy", fr)

\* the fuzzy loop over the words and the final return None
FindFuzzy ==
    \E p \in Callers :
        /\ At(p, "find_fuzzy")
        /\ LET fr == frames[Frame(p)]
           IN  Return(p, EntryReturn(WordFuzzyScan(fr.pairs, Split(fr.q_norm), 1)))

\* if not kb_entry: return None, ""; facts = ...; query_lower = query.lower()
ExtractBegin ==
    \E p \in Callers :
        /\ At(p, "extract_begin")
        /\ LET fr == frames[Frame(p)]
               arg == IF fr.kb_entry \in 1..Len(faqs) THEN <<faqs[fr.kb_entry]>> ELSE NoneEntry
           IN  IF arg = NoneEntry \/ DOMAIN arg[1] = {} THEN Return(p, FactReturn(<<>>, 0))
               ELSE Goto(p, "extract_types",
                         [fr EXCEPT !.facts = FactsOf(arg[1]), !.query_lower = Lower(fr.query)])

\* question_types = self.get_question_type(query)
ExtractTypes ==
    \E p \in Callers :
        /\ At(p, "extract_types")
        /\ LET fr == frames[Frame(p)]
           IN  Goto(p, "extract_category",
                    [fr EXCEPT !.question_types = get_question_type(fr.query)])

\* type_to_fact_keys and the category loop
ExtractCategory ==
    \E p \in Callers :
        /\ At(p, "extract_category")
        /\ LET fr == frames[Frame(p)]
               byType == TypeScan(fr.facts, type_to_fact_keys(fr.facts), fr.question_types, 1)
           IN  IF byType # 0 THEN Return(p, FactReturn(fr.facts, byType))
               ELSE Goto(p, "extract_direct", fr)

\* the direct pass and the final return None, ""
ExtractDirect ==
    \E p \in Callers :
        /\ At(p, "extract_direct")
        /\ LET fr == frames[Frame(p)]
           IN  Return(p, FactReturn(fr.facts, DirectScan(fr.facts, fr.query_lower)))

NextConc ==
    \/ CallFind
    \/ CallExtract
    \/ FindBegin
    \/ FindPatterns
    \/ FindBuildTags
    \/ FindTags
    \/ FindFuzzy
    \/ ExtractBegin
    \/ ExtractTypes
    \/ ExtractCategory
    \/ ExtractDirect

SpecConc == InitConc /\ [][NextConc]_vars

\* what the call of handler p returns when it runs alone
AloneReturn(p) ==
    IF procs[p].kind = "find"
    THEN EntryReturn(app_get_relevant_info(faqs, procs[p].query).result)
    ELSE LET arg == IF procs[p].kb_entry = NoEntry THEN NoneEntry ELSE <<faqs[procs[p].kb_entry]>>
             a   == extract_specific_answer(procs[p].query, arg)
         IN  <<"fact", a.value, a.key>>

(***************************************************************************)
(* C19.  Calls of get_relevant_info and extract_specific_answer that run   *)
(* at once over the same list, in any interleaving of their steps, each    *)
(* return what they return when run alone.                                 *)
(***************************************************************************)
C19_ConcurrentCallsReturnAsAlone ==
    \A p \in Callers : At(p, "done") => procs[p].ret = AloneReturn(p)

\* two calls with different queries whose steps overlapped have both
\* returned, one an entry and the other a fact
C19_Witness ==
    /\ At(1, "done") /\ At(2, "done")
    /\ procs[1].overlap /\ procs[2].overlap
    /\ procs[1].query # procs[2].query
    /\ procs[1].kind = "find" /\ procs[1].ret # EntryReturn(NoEntry)
    /\ procs[2].kind = "extract" /\ procs[2].ret # FactReturn(<<>>, 0)

(***************************************************************************)
(* C21.  For the entry A with the single fact library_timing = "9 to 5",   *)
(* extract_specific_answer("library hours", A) returns ("9 to 5",          *)
(* "library_timing").                                                      *)
(***************************************************************************)
C21_LibraryHoursExample ==
    (/\ Extracted
     /\ kb_entry # NoEntry
     /\ faqs[kb_entry] = EntryA
     /\ query = <<"l", "i", "b", "r", "a", "r", "y", " ", "h", "o", "u", "r", "s">>)
    => (/\ answer.value = <<"9 to 5">>
        /\ answer.key = <<"l", "i", "b", "r", "a", "r", "y", "_", "t", "i", "m", "i", "n", "g">>)

\* the call of the example has returned, the categories "timing" and
\* "library" detected
C21_Witness ==
    /\ Extracted
    /\ kb_entry # NoEntry
    /\ faqs[kb_entry] = EntryA
    /\ FactsGiven = <<<<<<"l", "i", "b", "r", "a", "r", "y", "_", "t", "i", "m", "i", "n", "g">>, <<"str", "9 to 5">>>>>>
    /\ query = <<"l", "i", "b", "r", "a", "r", "y", " ", "h", "o", "u", "r", "s">>
    /\ answer.types = <<"timing", "library">>
    /\ answer.site = "category"

(***************************************************************************)
(* The matchers of src/app.py and src/abhi/src/knowledge_base.py asked the *)
(* same questions over the same entries.                                   *)
(***************************************************************************)

AbhiFindEntry == \E q \in FactQueries : Call("abhi", abhi_get_relevant_info(faqs, q), q)

NextWords == FindEntry \/ AbhiFindEntry \/ Discard

SpecWords == InitFact /\ [][NextWords]_vars

\* 2 * matched characters / total length of both strings, as <<numerator,
\* denominator>>
SimilarityRatio(a, b) == <<2 * matches(a, b, 0, Len(a), 0, Len(b)), Len(a) + Len(b)>>

\* the call of the example: the list [B], the query "corses available"
CoursesExample ==
    /\ Returned
    /\ impl \in {"app", "abhi"}
    /\ faqs = <<EntryB>>
    /\ query = <<"c", "o", "r", "s", "e", "s", " ", "a", "v", "a", "i", "l", "a", "b", "l", "e">>

(***************************************************************************)
(* C22.  With entries = [B], B having no patterns and the single tag       *)
(* "courses", get_relevant_info("corses available") returns B if and only  *)
(* if the similarity ratio, 2 * matched characters / total length, of the  *)
(* whole string "corses available" against "courses" is at least 0.5.      *)
(***************************************************************************)
C22_CoursesExampleRatio ==
    CoursesExample =>
        LET r == SimilarityRatio(query, <<"c", "o", "u", "r", "s", "e", "s">>)
        IN  (result = 1) <=> (10 * r[1] >= 5 * r[2])

\* the example has run in one of the two files: the ratio is 12/23 and B
\* is returned by the fuzzy pass
C22_Witness ==
    /\ CoursesExample
    /\ SimilarityRatio(query, <<"c", "o", "u", "r", "s", "e", "s">>) = <<12, 23>>
    /\ result = 1
    /\ via = "fuzzy"
    /\ impl = "abhi"

(***************************************************************************)
(* KnowledgeBase._normalize of src/app.py applied to texts of its own.     *)
(***************************************************************************)

\* the length of a text handed to _normalize
MaxTextLen == 3

TextAlphabet == {" ", "\t", "A", "a", "b"}

Texts == SeqsUpTo(TextAlphabet, MaxTextLen)

\* _normalize reads no attribute of the knowledge base: the list is empty
InitNormalize ==
    /\ faqs = <<>>
    /\ query = <<>>
    /\ q_norm = <<>>
    /\ result = NoEntry
    /\ via = "init"
    /\ impl = "none"
    /\ kb_entry = NoEntry
    /\ answer = NoAnswer("init", <<>>)
    /\ types = <<>>
    /\ procs = NoCalls
    /\ frames = NoFrames
    /\ init_session
    /\ NoAudioProcessor

Normalize ==
    \E text \in Texts :
        /\ Idle
        /\ query' = text
        /\ q_norm' = <<normalize(text)>>
        /\ via' = "normalize"
        /\ impl' = "app"
        /\ UNCHANGED <<faqs, result>>
        /\ UNCHANGED factVars
        /\ UNCHANGED concVars
        /\ UNCHANGED appVars

NextNormalize == Normalize \/ Discard

SpecNormalize == InitNormalize /\ [][NextNormalize]_vars

\* _normalize has returned
Normalized == via = "normalize"

\* every character of s is whitespace
AllSpace(s) == \A i \in 1..Len(s) : s[i] \in {" ", "\t", "\n"}

\* no character of s is an upper-case letter
NoCapital(s) == \A i \in 1..Len(s) : s[i] \notin DOMAIN LowerMap

\* s with every capital replaced by its small letter
Small(s) == [i \in 1..Len(s) |-> IF s[i] \in DOMAIN LowerMap THEN LowerMap[s[i]] ELSE s[i]]

(***************************************************************************)
(* C23.  _normalize returns for every text the text lower-cased with the   *)
(* leading and trailing whitespace removed; normalize("") = "" and a text  *)
(* of whitespace only normalizes to "".                                    *)
(***************************************************************************)
C23_NormalizeLowersAndStrips ==
    Normalized =>
        /\ Len(q_norm) = 1
        /\ LET r == q_norm[1]
           IN  /\ NoCapital(r)
               /\ r # <<>> => (~AllSpace(<<r[1]>>) /\ ~AllSpace(<<r[Len(r)]>>))
               /\ \E i \in 0..Len(query) :
                      /\ i + Len(r) <= Len(query)
                      /\ AllSpace(SubSeq(query, 1, i))
                      /\ SubSeq(Small(query), i + 1, i + Len(r)) = r
                      /\ AllSpace(SubSeq(query, i + Len(r) + 1, Len(query)))
               /\ AllSpace(query) => r = <<>>

\* a text with whitespace on both sides of a capital letter
C23_Witness ==
    /\ Normalized
    /\ Len(query) = 3
    /\ AllSpace(<<query[1]>>)
    /\ query[2] \in DOMAIN LowerMap
    /\ query[3] = "\t"
    /\ q_norm = <<<<LowerMap[query[2]]>>>>

(***************************************************************************)
(* C24.  Whenever extract_specific_answer returns a value, the key it      *)
(* returns is a key of the answer_facts of the entry it was given and the  *)
(* value is the string form of the value stored under that key: never a    *)
(* value of another entry, never a fragment of the taxonomy in place of    *)
(* the key.                                                                *)
(***************************************************************************)
C24_ReturnedFactIsOfTheEntry ==
    (Extracted /\ answer.value # <<>>) =>
        /\ kb_entry # NoEntry
        /\ \E k \in FactPositions : ReturnedFact(k)

\* a key written with capitals is handed back as written, from the entry
\* given and not from the other entry of the list, which has facts too
C24_Witness ==
    /\ Extracted
    /\ Len(faqs) = 2
    /\ kb_entry # NoEntry
    /\ \E k \in FactPositions : ReturnedFact(k)
    /\ answer.site = "category"
    /\ Lower(answer.key) # answer.key
    /\ \E j \in Positions : j # kb_entry /\ FactsOf(faqs[j]) # <<>> /\ faqs[j] # faqs[kb_entry]

\* the best ratio a tag reaches against text c is below the best ratio a
\* tag reaches against text d
BestBelow(c, d) ==
    \E u \in AllNormTags : \A t \in AllNormTags : RatioLess(ratio(t, c), ratio(u, d))

(***************************************************************************)
(* C25.  The fuzzy pass of app.py visits the whitespace-separated words of *)
(* the query in order, skips every word of 3 characters or fewer, and      *)
(* returns the owner of the best-matching tag, of ratio at least 0.6, of   *)
(* the first word that has one; a later word with a higher-scoring tag     *)
(* does not override the match of an earlier word.                         *)
(***************************************************************************)
C25_FirstMatchingWordDecides ==
    (FuzzyReached /\ impl = "app") =>
        LET ws == Split(QN)
            mw == {k \in 1..Len(ws) : Len(ws[k]) > 3 /\ Passing(ws[k], 6) # {}}
        IN  IF mw = {} THEN result = NoEntry
            ELSE /\ via = "fuzzy"
                 /\ FuzzyChoice(ws[CHOOSE k \in mw : \A l \in mw : k <= l], 6)

\* both words of the query have a tag of ratio at least 0.6, the tag of the
\* second word scores higher and belongs to another entry, and the owner of
\* the first word's tag is returned
C25_Witness ==
    /\ FuzzyReached
    /\ impl = "app"
    /\ via = "fuzzy"
    /\ LET ws == Split(QN)
       IN  /\ Len(ws) = 2
           /\ Len(ws[1]) > 3 /\ Len(ws[2]) > 3
           /\ Passing(ws[1], 6) # {} /\ Passing(ws[2], 6) # {}
           /\ BestBelow(ws[1], ws[2])
           /\ \E t \in Passing(ws[1], 6) : result \in Carriers(t)
           /\ \A u \in Passing(ws[2], 6) : result \notin Carriers(u)

(***************************************************************************)
(* AudioProcessor (app.py).  Floats are kept in hundredths; the bytes an    *)
(* audio holds are a name ("wav at pitch 0"), "" for b"".                   *)
(***************************************************************************)
language_codes == [en |-> "en-IN", ml |-> "ml-IN"]

\* self.language_codes.get(lang_code, "en-IN")
TargetLanguage(lang_code) ==
    IF lang_code \in DOMAIN language_codes THEN language_codes[lang_code] ELSE "en-IN"

Slow == 85
Normal == 100
Fast == 115

\* AudioProcessor.get_pace_value
get_pace_value(speech_rate) ==
    CASE speech_rate = "Slow" -> Slow
      [] speech_rate = "Normal" -> Normal
      [] speech_rate = "Fast" -> Fast
      [] OTHER -> Normal

\* str() of the floats get_pace_value gives
FloatStr(pace) ==
    CASE pace = Slow -> "0.85"
      [] pace = Normal -> "1.0"
      [] pace = Fast -> "1.15"

\* _prepare_text_for_tts: the replacements, in the order of the dict
replacements ==
    << <<"@", <<" ", "a", "t", " ">>>>,
       <<"&", <<" ", "a", "n", "d", " ">>>>,
       <<"%", <<" ", "p", "e", "r", "c", "e", "n", "t", " ">>>>,
       <<"+", <<" ", "p", "l", "u", "s", " ">>>>,
       <<"U+20B9", <<" ", "r", "u", "p", "e", "e", "s", " ">>>> >>

\* str.replace(old, new) for a one-character old
RECURSIVE Replace(_, _, _)
Replace(text, old, new) ==
    IF text = <<>> THEN <<>>
    ELSE (IF Head(text) = old THEN new ELSE <<Head(text)>>) \o Replace(Tail(text), old, new)

\* the loop over replacements.items(), from replacement k
RECURSIVE ReplaceFrom(_, _)
ReplaceFrom(text, k) ==
    IF k > Len(replacements) THEN text
    ELSE ReplaceFrom(Replace(text, replacements[k][1], replacements[k][2]), k + 1)

\* ' '.join(words)
RECURSIVE Join(_)
Join(words) ==
    IF words = <<>> THEN <<>>
    ELSE IF Len(words) = 1 THEN words[1]
    ELSE words[1] \o <<" ">> \o Join(Tail(words))

\* AudioProcessor._prepare_text_for_tts
prepare_text_for_tts(text) == Join(Split(ReplaceFrom(text, 1)))

\* f"{hash(text)}_{target_language}_{speaker}_{pace}"
CacheKey(h, target_language, speaker, pace) ==
    ToString(h) \o "_" \o target_language \o "_" \o speaker \o "_" \o FloatStr(pace)

\* audio_bytes is not None
IsNotNone(audio_bytes) == audio_bytes # NoAudio

\* bool(audio_bytes)
Truthy(audio_bytes) == audio_bytes # NoAudio /\ audio_bytes[1] # ""

\* what self.client.text_to_speech.convert and _extract_audio can come to:
\* an exception, None, b"" or the bytes of an audio
Raised == <<"raise">>

Extracted_(audio_bytes) == <<"audio", audio_bytes>>

\* text_to_speech with the loudness made part of the cache key
text_to_speech_keyed_by_loudness(cache, hash, args, service) ==
    IF Strip(args.text) = <<>>
    THEN [returned |-> NoAudio, audio_cache |-> cache, called |-> FALSE]
    ELSE LET text == prepare_text_for_tts(args.text)
             target_language == TargetLanguage(args.lang_code)
             cache_key == CacheKey(hash[text], target_language, args.speaker, args.pace)
                              \o "_" \o ToString(args.loudness)
         IN  IF cache_key \in DOMAIN cache
             THEN [returned |-> cache[cache_key], audio_cache |-> cache, called |-> FALSE]
             ELSE IF service = Raised
             THEN [returned |-> NoAudio, audio_cache |-> cache, called |-> TRUE]
             ELSE LET audio_bytes == service[2]
                  IN  [returned |-> audio_bytes,
                       audio_cache |-> IF Truthy(audio_bytes)
                                       THEN (cache_key :> audio_bytes) @@ cache
                                       ELSE cache,
                       called |-> TRUE]

\* AudioProcessor.text_to_speech(**args) with the cache and the str hashes it
\* finds and the outcome of the service if it is called: what is returned,
\* the cache it leaves, and whether the service was called
text_to_speech(cache, hash, args, service) ==
    IF Strip(args.text) = <<>>
    THEN [returned |-> NoAudio, audio_cache |-> cache, called |-> FALSE]
    ELSE LET text == prepare_text_for_tts(args.text)
             target_language == TargetLanguage(args.lang_code)
             cache_key == CacheKey(hash[text], target_language, args.speaker, args.pace)
         IN  IF cache_key \in DOMAIN cache
             THEN [returned |-> cache[cache_key], audio_cache |-> cache, called |-> FALSE]
             ELSE IF service = Raised
             THEN [returned |-> NoAudio, audio_cache |-> cache, called |-> TRUE]
             ELSE LET audio_bytes == service[2]
                  IN  [returned |-> audio_bytes,
                       audio_cache |-> IF Truthy(audio_bytes)
                                       THEN (cache_key :> audio_bytes) @@ cache
                                       ELSE cache,
                       called |-> TRUE]

\* the call makes no use of the service: the text is blank or its key is cached
Unserviced(cache, hash, args) == ~text_to_speech(cache, hash, args, Raised).called

(***************************************************************************)
(* The calls of text_to_speech on one AudioProcessor.                      *)
(***************************************************************************)
\* the service fails, or gives nothing, or b"", or an audio made at the pitch
\* it was asked for
ServiceOutcomes(pitch) ==
    {Raised, Extracted_(NoAudio), Extracted_(<<"">>),
     Extracted_(<<"wav at pitch " \o ToString(pitch)>>)}

\* text, lang_code, speaker and pace of the calls
TtsRequests ==
    { [text |-> <<" ">>, lang_code |-> "ml", speaker |-> "arya", pace |-> Normal],
      [text |-> <<"a">>, lang_code |-> "ml", speaker |-> "arya", pace |-> Normal],
      [text |-> <<" ", "a", "\t">>, lang_code |-> "ml", speaker |-> "arya", pace |-> Normal],
      [text |-> <<"a", "&">>, lang_code |-> "ml", speaker |-> "arya", pace |-> Normal],
      [text |-> <<"a">>, lang_code |-> "en", speaker |-> "arya", pace |-> Normal],
      [text |-> <<"a">>, lang_code |-> "hi", speaker |-> "arya", pace |-> Normal],
      [text |-> <<"a">>, lang_code |-> "ml", speaker |-> "anushka", pace |-> Normal],
      [text |-> <<"a">>, lang_code |-> "ml", speaker |-> "arya", pace |-> Fast] }

\* pitch, loudness and sample_rate of the calls
TtsSettings ==
    { [pitch |-> 0, loudness |-> 15, sample_rate |-> 22050],
      [pitch |-> 1, loudness |-> 20, sample_rate |-> 8000] }

\* the texts hash() is applied to, and the values it can give them
PreparedTexts == {prepare_text_for_tts(r.text) : r \in TtsRequests} \ {<<>>}

MaxHash == 2

HashValues == 1..MaxHash

InitTts ==
    /\ faqs = <<>>
    /\ query = <<>>
    /\ q_norm = <<>>
    /\ result = NoEntry
    /\ via = "init"
    /\ impl = "none"
    /\ kb_entry = NoEntry
    /\ answer = NoAnswer("init", <<>>)
    /\ types = <<>>
    /\ procs = NoCalls
    /\ frames = NoFrames
    /\ init_session
    /\ audio_cache = <<>>
    /\ str_hash \in [PreparedTexts -> HashValues]
    /\ tts_call = NoTtsCall
    /\ synthesized = <<>>

\* the (prepared text, target language, speaker, pace) of a call
FourValues(c) ==
    <<prepare_text_for_tts(c.text), TargetLanguage(c.lang_code), c.speaker, c.pace>>

\* text_to_speech(text, lang_code, speaker, pitch, pace, loudness, sample_rate)
TtsArgs(r, o) ==
    [text |-> r.text, lang_code |-> r.lang_code, speaker |-> r.speaker, pitch |-> o.pitch,
     pace |-> r.pace, loudness |-> o.loudness, sample_rate |-> o.sample_rate]

\* the call made, whether it called the service, and what it returned
TtsCall(args, out) ==
    [text |-> args.text, lang_code |-> args.lang_code, speaker |-> args.speaker,
     pitch |-> args.pitch, pace |-> args.pace, loudness |-> args.loudness,
     sample_rate |-> args.sample_rate, called |-> out.called, returned |-> out.returned]

TextToSpeech ==
    \E r \in TtsRequests, o \in TtsSettings :
        LET args == TtsArgs(r, o)
        IN  \E service \in IF Unserviced(audio_cache, str_hash, args)
                            THEN {Raised} ELSE ServiceOutcomes(o.pitch) :
                LET out == text_to_speech(audio_cache, str_hash, args, service)
                    four == FourValues(args)
                IN  /\ audio_cache' = out.audio_cache
                    /\ tts_call' = TtsCall(args, out)
                    /\ synthesized' =
                           IF out.called /\ Truthy(out.returned)
                                /\ four \notin DOMAIN synthesized
                           THEN (four :> out.returned) @@ synthesized
                           ELSE synthesized
                    /\ UNCHANGED str_hash
                    /\ UNCHANGED sessionVars
                    /\ UNCHANGED seqVars
                    /\ UNCHANGED concVars

NextTts == TextToSpeech

SpecTts == InitTts /\ [][NextTts]_vars

\* the step is a call of text_to_speech
Spoken == tts_call' # tts_call \/ audio_cache' # audio_cache

(***************************************************************************)
(* C29.  After a successful synthesis for a (prepared text, target         *)
(* language, speaker, pace), every later call of text_to_speech with the   *)
(* same four values makes no call of the service and returns the bytes of  *)
(* that first synthesis, whatever its pitch, loudness and sample rate; a   *)
(* synthesis that failed or gave nothing is not stored in the cache.       *)
(***************************************************************************)
C29_CachedAfterFirstSynthesis ==
    [][ Spoken =>
          /\ FourValues(tts_call') \in DOMAIN synthesized =>
                 /\ ~tts_call'.called
                 /\ tts_call'.returned = synthesized[FourValues(tts_call')]
          /\ ~Truthy(tts_call'.returned) => audio_cache' = audio_cache
          /\ \A k \in DOMAIN audio_cache' : Truthy(audio_cache'[k]) ]_vars

\* a call of a text that is not its prepared text, asking for pitch 1, is
\* answered from the cache with the bytes of the first synthesis of its four
\* values, which was made at pitch 0
C29_Witness ==
    /\ tts_call # NoTtsCall
    /\ ~tts_call.called
    /\ tts_call.text # prepare_text_for_tts(tts_call.text)
    /\ tts_call.pitch = 1
    /\ FourValues(tts_call) \in DOMAIN synthesized
    /\ synthesized[FourValues(tts_call)] = <<"wav at pitch 0">>
    /\ tts_call.returned = <<"wav at pitch 0">>

(***************************************************************************)
(* ConversationHandler (app.py).  A table is the sequence of its keys in   *)
(* the order of the dict, each with the number of its responses.           *)
(***************************************************************************)
greeting_patterns ==
    <<
       <<<<"s", "u", "g", "a", "m", "a", "n", "o">>, 2>>,
       <<<<"s", "u", "k", "h", "a", "m", "a", "n", "o">>, 2>>,
       <<<<"U+0D38", "U+0D41", "U+0D16", "U+0D2E", "U+0D3E", "U+0D23", "U+0D4B">>, 2>>,
       <<<<"U+0D28", "U+0D2E", "U+0D38", "U+0D4D", "U+0D15", "U+0D3E", "U+0D30", "U+0D02">>,
           2>>,
       <<<<"n", "a", "m", "a", "s", "k", "a", "r", "a", "m">>, 2>>,
       <<<<"h", "e", "l", "l", "o">>, 2>>,
       <<<<"h", "i">>, 2>>,
       <<<<"h", "e", "y">>, 2>>,
       <<<<"g", "o", "o", "d", " ", "m", "o", "r", "n", "i", "n", "g">>, 2>>,
       <<<<"g", "o", "o", "d", " ", "a", "f", "t", "e", "r", "n", "o", "o", "n">>, 2>>,
       <<<<"g", "o", "o", "d", " ", "e", "v", "e", "n", "i", "n", "g">>, 2>> >>

how_are_you_patterns ==
    <<
       <<<<"h", "o", "w", " ", "a", "r", "e", " ", "y", "o", "u">>, 2>>,
       <<<<"h", "o", "w", " ", "r", " ", "u">>, 2>>,
       <<<<"w", "h", "a", "t", "'", "s", " ", "u", "p">>, 2>>,
       <<<<"e", "n", "t", "h", "o", "k", "k", "e", " ", "u", "n", "d">>, 2>>,
       <<<<"U+0D0E", "U+0D28", "U+0D4D", "U+0D24", "U+0D4A", "U+0D15", "U+0D4D", "U+0D15", "U+0D46", " ", "U+0D09", "U+0D23", "U+0D4D", "U+0D1F", "U+0D4D">>,
           2>> >>

thank_you_patterns ==
    <<
       <<<<"t", "h", "a", "n", "k", " ", "y", "o", "u">>, 2>>,
       <<<<"t", "h", "a", "n", "k", "s">>, 3>>,
       <<<<"n", "a", "n", "n", "i">>, 2>>,
       <<<<"U+0D28", "U+0D28", "U+0D4D", "U+0D26", "U+0D3F">>, 2>> >>

goodbye_patterns ==
    <<
       <<<<"b", "y", "e">>, 2>>,
       <<<<"g", "o", "o", "d", "b", "y", "e">>, 2>>,
       <<<<"p", "i", "n", "n", "e", " ", "k", "a", "n", "a", "m">>, 2>>,
       <<<<"U+0D2A", "U+0D3F", "U+0D28", "U+0D4D", "U+0D28", "U+0D46", " ", "U+0D15", "U+0D3E", "U+0D23", "U+0D3E", "U+0D02">>,
           2>> >>

about_me_patterns ==
    <<
       <<<<"w", "h", "o", " ", "a", "r", "e", " ", "y", "o", "u">>, 2>>,
       <<<<"w", "h", "a", "t", " ", "i", "s", " ", "y", "o", "u", "r", " ", "n", "a", "m", "e">>,
           2>>,
       <<<<"n", "e", "e", " ", "a", "a", "r", "a">>, 2>>,
       <<<<"U+0D28", "U+0D40", " ", "U+0D06", "U+0D30", "U+0D3E">>, 2>> >>

\* the characters of the Malayalam block (U+0D00..U+0D7F) the texts use
MalayalamChars ==
    { "U+0D02", "U+0D06", "U+0D09", "U+0D0E", "U+0D15", "U+0D16", "U+0D1F",
      "U+0D23", "U+0D24", "U+0D26", "U+0D28", "U+0D2A", "U+0D2B", "U+0D2E",
      "U+0D30", "U+0D38", "U+0D3E", "U+0D3F", "U+0D40", "U+0D41", "U+0D46",
      "U+0D4A", "U+0D4B", "U+0D4D", "U+0D7A" }

Digits == {"0", "1", "2", "3", "4", "5", "6", "7", "8", "9"}

\* c.isalnum() or c.isspace() or ord(c) > 127
KeptChar(c) ==
    \/ c \in DOMAIN LowerMap
    \/ c \in {LowerMap[u] : u \in DOMAIN LowerMap}
    \/ c \in Digits
    \/ IsSpace(c)
    \/ c \in MalayalamChars \cup {"U+20B9"}

\* ''.join(c for c in query_lower if ...)
Clean(query_lower) == SelectSeq(query_lower, KeptChar)

\* the tables in the order greeting, how_are_you, thank_you, goodbye, about_me
all_patterns ==
    << <<greeting_patterns, "greeting">>,
       <<how_are_you_patterns, "how_are_you">>,
       <<thank_you_patterns, "thank_you">>,
       <<goodbye_patterns, "goodbye">>,
       <<about_me_patterns, "about_me">> >>

\* the test with only "key in query_clean"
KeyInQuery(key, query_clean) == IsSubstr(key, query_clean)

\* if key in query_clean or query_clean in key
KeyMatches(key, query_clean) == IsSubstr(key, query_clean) \/ IsSubstr(query_clean, key)

\* the first key of the table, from key k on, that matches; 0 if none does
RECURSIVE FirstKey(_, _, _)
FirstKey(patterns, query_clean, k) ==
    IF k > Len(patterns) THEN 0
    ELSE IF KeyMatches(patterns[k][1], query_clean) THEN k
    ELSE FirstKey(patterns, query_clean, k + 1)

NotConversation == [is_conv |-> FALSE, pattern_type |-> "", key |-> 0, responses |-> 0]

\* the loop over the tables, from table t on
RECURSIVE TableScan(_, _, _)
TableScan(tables, query_clean, t) ==
    IF t > Len(tables) THEN NotConversation
    ELSE LET k == FirstKey(tables[t][1], query_clean, 1)
         IN  IF k # 0
             THEN [is_conv |-> TRUE, pattern_type |-> tables[t][2], key |-> k,
                   responses |-> tables[t][1][k][2]]
             ELSE TableScan(tables, query_clean, t + 1)

\* ConversationHandler.is_conversation_query: whether the query is small
\* talk, and the table and key whose responses the reply is drawn from
is_conversation_query(q) == TableScan(all_patterns, Clean(Strip(Lower(q))), 1)

\* the n-th response of key k of a table, as a text of one symbol
CannedReply(pattern_type, k, n) ==
    <<pattern_type \o "/" \o ToString(k) \o "/" \o ToString(n)>>

\* random.choice(responses)
ConversationResponses(conv) ==
    {CannedReply(conv.pattern_type, conv.key, n) : n \in 1..conv.responses}

(***************************************************************************)
(* LanguageHandler and AIProcessor (app.py).  What langdetect, ml2en, the  *)
(* templates and the chat model give is not decided by the code: every     *)
(* operator gives the set of the outcomes left open.                       *)
(***************************************************************************)
\* LanguageHandler.detect_language_mode
detect_language_mode(text) ==
    IF Strip(text) = <<>> THEN {"en"}
    ELSE IF \E i \in 1..Len(text) : text[i] \in MalayalamChars THEN {"ml_script"}
    ELSE {"en", "manglish"}

\* the texts ml2en may give for a text in Malayalam script
ManglishTexts == {<<"p", "h", "o", "n">>}

\* LanguageHandler.malayalam_to_manglish: what ml2en gives, or the text as it
\* is when ml2en raises
malayalam_to_manglish(malayalam_text) == ManglishTexts \cup {malayalam_text}

\* if value: / if facts: / the chat model, whose answer may be blank
generate_voice_response(entry, specific_answer, lang_mode) ==
    IF specific_answer.value # <<>> /\ specific_answer.value[1] # ""
    THEN {<<"answer of " \o specific_answer.key>>}
    ELSE IF FactsOf(entry) # <<>>
    THEN {<<"here are the details">>}
    ELSE {<<"chat model answer">>, <<>>}

\* AIProcessor.generate_not_found_response
generate_not_found_response(lang_mode) ==
    IF lang_mode \in {"ml_script", "manglish"}
    THEN {<<"not found/ml/1">>, <<"not found/ml/2">>}
    ELSE {<<"not found/en/1">>, <<"not found/en/2">>}

\* datetime.now().hour of the runs
Hours == {22}

\* ConversationHandler.get_time_based_greeting
get_time_based_greeting(lang, hour) ==
    IF lang = "ml"
    THEN IF 5 <= hour /\ hour < 12 THEN {"ml morning 1", "ml morning 2"}
         ELSE IF 12 <= hour /\ hour < 17 THEN {"ml afternoon 1", "ml afternoon 2"}
         ELSE IF 17 <= hour /\ hour < 21 THEN {"ml evening 1", "ml evening 2"}
         ELSE {"ml night"}
    ELSE IF 5 <= hour /\ hour < 12 THEN {"Good morning!"}
         ELSE IF 12 <= hour /\ hour < 17 THEN {"Good afternoon!"}
         ELSE IF 17 <= hour /\ hour < 21 THEN {"Good evening!"}
         ELSE {"Hello!"}

\* ConversationHandler.get_welcome_message, as texts of one symbol
get_welcome_message(lang) ==
    {<<"welcome/" \o lang \o "/" \o g>> :
        g \in UNION {get_time_based_greeting(lang, hour) : hour \in Hours}}

(***************************************************************************)
(* The session (app.py): st.session_state as a record, the functions that  *)
(* change it, and the runs of the script.                                  *)
(***************************************************************************)
Session ==
    [messages |-> messages, last_audio |-> last_audio,
     autoplay_pending |-> autoplay_pending, welcomed |-> welcomed,
     listening |-> listening, processing |-> processing, speaking |-> speaking,
     preferences |-> preferences, audio_cache |-> audio_cache]

\* pitch, loudness and sample_rate when the caller passes none
DefaultPitch == 0
DefaultLoudness == 15
DefaultSampleRate == 22050

\* the text_to_speech call of process_query and generate_welcome
Speak(S, text, loudness, service) ==
    IF S.preferences.voice_enabled
    THEN text_to_speech(S.audio_cache, str_hash,
                        [text |-> text, lang_code |-> S.preferences.tts_language,
                         speaker |-> S.preferences.speaker, pitch |-> DefaultPitch,
                         pace |-> get_pace_value(S.preferences.speech_rate),
                         loudness |-> loudness, sample_rate |-> DefaultSampleRate],
                        service)
    ELSE [returned |-> NoAudio, audio_cache |-> S.audio_cache, called |-> FALSE]

\* the outcomes of the service to tell apart for a text: one when it is not
\* called
Services(S, text) ==
    IF Speak(S, text, DefaultLoudness, Raised).called THEN ServiceOutcomes(DefaultPitch)
    ELSE {Raised}

\* if audio_bytes and preferences["auto_play"]: last_audio, autoplay_pending
QueueAutoplay(S, audio_bytes) ==
    IF Truthy(audio_bytes) /\ S.preferences.auto_play
    THEN [S EXCEPT !.last_audio = audio_bytes, !.autoplay_pending = TRUE]
    ELSE S

\* the history set to the two messages
SaveMessagesOverHistory(history, user, assistant) == <<user, assistant>>

\* the two appends of process_query
SaveMessages(history, user, assistant) == Append(Append(history, user), assistant)

\* process_query from "Generate audio" on, with the response it has got
process_query(S, q, is_voice, response, service) ==
    LET S1 == [S EXCEPT !.processing = TRUE, !.listening = FALSE]
        out == Speak(S1, response, S1.preferences.loudness, service)
        audio_bytes == out.returned
        S2 == [S1 EXCEPT !.audio_cache = out.audio_cache,
                         !.processing = FALSE,
                         !.speaking = (audio_bytes # NoAudio),
                         !.messages =
                             SaveMessages(@,
                                 [role |-> "user", content |-> q, is_voice |-> is_voice],
                                 [role |-> "assistant", content |-> response,
                                  audio |-> audio_bytes])]
    IN  QueueAutoplay(S2, audio_bytes)

generate_welcome(S, welcome_text, service) ==
    LET out == Speak(S, welcome_text, DefaultLoudness, service)
        audio_bytes == out.returned
        S1 == [S EXCEPT !.audio_cache = out.audio_cache,
                        !.messages =
                            Append(@, [role |-> "assistant", content |-> welcome_text,
                                       audio |-> audio_bytes, is_welcome |-> TRUE])]
    IN  [QueueAutoplay(S1, audio_bytes) EXCEPT !.welcomed = TRUE]

\* clear_chat without the line for welcomed
clear_chat_keeps_welcomed(S) ==
    [S EXCEPT !.messages = <<>>, !.last_audio = NoAudio, !.autoplay_pending = FALSE,
              !.listening = FALSE, !.processing = FALSE, !.speaking = FALSE]

clear_chat(S) ==
    [S EXCEPT !.messages = <<>>, !.last_audio = NoAudio, !.autoplay_pending = FALSE,
              !.welcomed = FALSE, !.listening = FALSE, !.processing = FALSE,
              !.speaking = FALSE]

\* "Auto-play audio": if autoplay_pending and last_audio
Autoplay(S) ==
    IF S.autoplay_pending /\ Truthy(S.last_audio)
    THEN [S EXCEPT !.autoplay_pending = FALSE, !.speaking = TRUE]
    ELSE S

\* "Clean up states after audio playback"
CleanUp(S) ==
    IF S.speaking /\ ~S.autoplay_pending THEN [S EXCEPT !.speaking = FALSE] ELSE S

\* "Auto-welcome": if not welcomed and not messages
AutoWelcomeDue(S) == ~S.welcomed /\ S.messages = <<>>

\* what a query is answered with and what the knowledge base has been asked
Conversation(response) ==
    [response |-> response, q_norm |-> <<>>, result |-> NoEntry, via |-> "conversation",
     kb_entry |-> NoEntry, answer |-> NoAnswer("init", <<>>)]

Searched(out, response, specific_answer) ==
    [response |-> response, q_norm |-> out.q_norm, result |-> out.result, via |-> out.via,
     kb_entry |-> out.result, answer |-> specific_answer]

\* the responses for the entry found and the fact extracted from it
FoundResponses(fs, out, specific_answer, lang_mode) ==
    {Searched(out, response, specific_answer) :
        response \in generate_voice_response(fs[out.result], specific_answer, lang_mode)}

\* if kb_entry: ... else: ..., with what get_relevant_info has returned
AnsweredResponses(fs, processed_query, lang_mode, out) ==
    IF out.result # NoEntry
    THEN UNION {FoundResponses(fs, out, specific_answer, lang_mode) :
                   specific_answer \in
                       {extract_specific_answer(processed_query, <<fs[out.result]>>)}}
    ELSE {Searched(out, response, NoAnswer("init", <<>>)) :
             response \in generate_not_found_response(lang_mode)}

\* process_query from get_relevant_info to the response, with the entries fs
\* of the knowledge base
KnowledgeBaseResponses(fs, processed_query, lang_mode) ==
    UNION {AnsweredResponses(fs, processed_query, lang_mode, out) :
              out \in {app_get_relevant_info(fs, processed_query)}}

\* process_query up to the response
Responses(fs, q) ==
    LET conv == is_conversation_query(q)
    IN  IF conv.is_conv
        THEN {Conversation(response) : response \in ConversationResponses(conv)}
        ELSE UNION {
                 UNION {KnowledgeBaseResponses(fs, processed_query, lang_mode) :
                            processed_query \in IF lang_mode = "ml_script"
                                                THEN malayalam_to_manglish(q)
                                                ELSE {q}} :
                 lang_mode \in detect_language_mode(q)}

(***************************************************************************)
(* Bounds and inputs of the session.                                       *)
(***************************************************************************)
\* the longest history and the most cached audios a run may leave
MaxMessages == 3
MaxCached == 1

\* the loaded knowledge base
SessionFaqLists == {<<EntryC, EntryG>>}

\* the queries typed, and the ones spoken or sent by the quick chat buttons
SessionQueries ==
    { <<"?", "!">>,
      <<"c", "o", "n", "t", "a", "c", "t">>,
      <<"U+0D2B", "U+0D4B", "U+0D7A">> }

\* the queries typed in the sessions that only ask
TalkQueries ==
    { <<"?", "!">>,
      <<"a">>,
      <<"H", "i", "!">>,
      <<"b", "y", "e", ",", " ", "t", "h", "a", "n", "k", "s">>,
      <<"w", "h", "a", "t", "'", "s", " ", "u", "p">>,
      <<"W", "h", "o", " ", "a", "r", "e", " ", "y", "o", "u", "?">>,
      <<"U+0D28", "U+0D28", "U+0D4D", "U+0D26", "U+0D3F">>,
      <<"c", "o", "n", "t", "a", "c", "t">>,
      <<"b", "o", "o", "k", "s">>,
      <<"x", "y", "z">>,
      <<"U+0D2B", "U+0D4B", "U+0D7A">> }

VoiceQueries == {<<"c", "o", "n", "t", "a", "c", "t">>}

QuickChatQueries == {<<"H", "e", "l", "l", "o", "!">>}

\* what the widgets of the sidebar set the preferences to
PreferenceChoices ==
    {[DefaultPreferences EXCEPT !.voice_enabled = v, !.auto_play = a] :
        v \in BOOLEAN, a \in BOOLEAN}

\* the responses of every query of the session, for every knowledge base
ResponseTable ==
    [fs \in SessionFaqLists |->
        [q \in SessionQueries \cup VoiceQueries \cup QuickChatQueries \cup TalkQueries |->
            Responses(fs, q)]]

\* every text the session can speak
SessionTexts ==
    UNION {UNION {{CannedReply(all_patterns[t][2], k, n) : n \in 1..all_patterns[t][1][k][2]} :
                      k \in 1..Len(all_patterns[t][1])} : t \in 1..Len(all_patterns)}
    \cup UNION {get_welcome_message(lang) : lang \in {"ml", "en"}}
    \cup UNION {generate_not_found_response(lang_mode) : lang_mode \in {"en", "manglish"}}
    \cup {<<"here are the details">>, <<"chat model answer">>}
    \cup {<<"answer of " \o key>> : key \in {"mobile", "phone"}}

InitSession ==
    /\ faqs \in SessionFaqLists
    /\ query = <<>>
    /\ q_norm = <<>>
    /\ result = NoEntry
    /\ via = "init"
    /\ impl = "none"
    /\ kb_entry = NoEntry
    /\ answer = NoAnswer("init", <<>>)
    /\ types = <<>>
    /\ procs = NoCalls
    /\ frames = NoFrames
    /\ messages = <<>>
    /\ preferences = DefaultPreferences
    /\ last_audio = NoAudio
    /\ autoplay_pending = FALSE
    /\ welcomed = FALSE
    /\ listening = FALSE
    /\ processing = FALSE
    /\ speaking = FALSE
    /\ \E is_mobile \in BOOLEAN :
           script = [pending |-> TRUE, handler |-> "init_session", is_mobile |-> is_mobile]
    /\ audio_cache = <<>>
    \* no two texts of the session have the same hash: the hash of a text is
    \* written as the text
    /\ str_hash = [text \in SessionTexts |-> text]
    /\ tts_call = NoTtsCall
    /\ synthesized = <<>>

\* the run ends, by st.rerun() if rerun, with the session state S
Commit(S, handler, rerun) ==
    /\ Len(S.messages) <= MaxMessages
    /\ Cardinality(DOMAIN S.audio_cache) <= MaxCached
    /\ messages' = S.messages
    /\ last_audio' = S.last_audio
    /\ autoplay_pending' = S.autoplay_pending
    /\ welcomed' = S.welcomed
    /\ listening' = S.listening
    /\ processing' = S.processing
    /\ speaking' = S.speaking
    /\ preferences' = S.preferences
    /\ audio_cache' = S.audio_cache
    /\ script' = [script EXCEPT !.pending = rerun, !.handler = handler]
    /\ UNCHANGED <<str_hash, tts_call, synthesized>>
    /\ UNCHANGED concVars

\* the variables of the knowledge base calls
kbVars == <<faqs, query, q_norm, result, via, impl, kb_entry, answer, types>>

\* the locals of the handler of the run before are gone
ReturnedFromHandler ==
    /\ query' = <<>>
    /\ q_norm' = <<>>
    /\ result' = NoEntry
    /\ via' = "init"
    /\ impl' = "none"
    /\ kb_entry' = NoEntry
    /\ answer' = NoAnswer("init", <<>>)
    /\ UNCHANGED <<faqs, types>>

\* generate_welcome(); st.rerun()
Welcome(S, handler) ==
    \E welcome_text \in get_welcome_message(S.preferences.tts_language) :
        \E service \in Services(S, welcome_text) :
            /\ Commit(generate_welcome(S, welcome_text, service), handler, TRUE)
            /\ ReturnedFromHandler

\* the script from "Auto-welcome" to its end when no widget has fired
RestOfRun(S) ==
    IF AutoWelcomeDue(S)
    THEN Welcome(S, "auto_welcome")
    ELSE /\ Commit(CleanUp(Autoplay(S)), "render", FALSE)
         /\ ReturnedFromHandler

\* a run of the script with no widget fired: the first run, a rerun, or a
\* widget that has no handler
RunScript == RestOfRun(Session)

\* a run in which a widget of the sidebar has changed the preferences
ChangePreferences ==
    /\ ~script.pending
    /\ ~script.is_mobile
    /\ \E p \in PreferenceChoices \ {preferences} :
           RestOfRun([Session EXCEPT !.preferences = p])

\* "Clear Chat" of the sidebar, which is above the auto-welcome, and the home
\* and clear buttons of the mobile navigation, which are below it
ClearChat ==
    /\ ~script.pending
    /\ script.is_mobile => ~AutoWelcomeDue(Session)
    /\ Commit(clear_chat(Session), "clear_chat", TRUE)
    /\ UNCHANGED kbVars

\* "Welcome" of the sidebar
WelcomeButton ==
    /\ ~script.pending
    /\ ~script.is_mobile
    /\ Welcome(Session, "welcome_button")

\* "Start Recording" and "Stop Recording" of the sidebar, the microphone
\* button of the mobile navigation
Recording ==
    /\ ~script.pending
    /\ \E on \in IF script.is_mobile THEN {~listening} ELSE BOOLEAN :
           /\ script.is_mobile => ~AutoWelcomeDue(Session)
           /\ Commit([Session EXCEPT !.listening = on], "recording", TRUE)
    /\ UNCHANGED kbVars

\* process_query(q, is_voice); st.rerun() with the session state S before it
ProcessQuery(S, q, is_voice) ==
    \E r \in ResponseTable[faqs][q] :
        \E service \in Services(S, r.response) :
            /\ Commit(process_query(S, q, is_voice, r.response, service), "process_query", TRUE)
            /\ query' = q
            /\ q_norm' = r.q_norm
            /\ result' = r.result
            /\ via' = r.via
            /\ impl' = "app"
            /\ kb_entry' = r.kb_entry
            /\ answer' = r.answer
            /\ UNCHANGED <<faqs, types>>

\* the voice input and the text input, which are above the autoplay element
AskAny(typed, spoken) ==
    /\ ~script.pending
    /\ ~AutoWelcomeDue(Session)
    /\ \E a \in (typed \X {FALSE}) \cup (spoken \X {TRUE}) :
           ProcessQuery(Session, a[1], a[2])

Ask == AskAny(SessionQueries, VoiceQueries)

\* the quick chat buttons of the side column, which are below the autoplay
\* element
QuickChat ==
    /\ ~script.pending
    /\ ~script.is_mobile
    /\ ~AutoWelcomeDue(Session)
    /\ \E q \in QuickChatQueries : ProcessQuery(Autoplay(Session), q, FALSE)

NextSession ==
    \/ RunScript
    \/ ChangePreferences
    \/ ClearChat
    \/ WelcomeButton
    \/ Recording
    \/ Ask
    \/ QuickChat

SpecSession == InitSession /\ [][NextSession]_vars

\* the sessions in which the user only types queries
Talk == AskAny(TalkQueries, {})

NextTalk == RunScript \/ Talk

SpecTalk == InitSession /\ [][NextTalk]_vars

(***************************************************************************)
(* Vocabulary of the properties of the session.                            *)
(***************************************************************************)
\* the step is a call of process_query, of clear_chat, the auto-welcome
ProcessQueryStep == script'.handler = "process_query" /\ ~script.pending

ClearChatStep == script'.handler = "clear_chat" /\ ~script.pending

AutoWelcomeStep == script'.handler = "auto_welcome" /\ messages' # messages

\* the tables with a phrase that the cleaned text contains or is contained in
SmallTalkTables(cleaned) ==
    {t \in 1..Len(all_patterns) :
        \E k \in 1..Len(all_patterns[t][1]) :
            \/ IsSubstr(all_patterns[t][1][k][1], cleaned)
            \/ IsSubstr(cleaned, all_patterns[t][1][k][1])}

\* the canned replies of table t
RepliesOfTable(t) ==
    UNION {{CannedReply(all_patterns[t][2], k, n) : n \in 1..all_patterns[t][1][k][2]} :
              k \in 1..Len(all_patterns[t][1])}

\* the last two messages of a history
Asked(history) == history[Len(history) - 1]

Replied(history) == history[Len(history)]

IsWelcome(message) == "is_welcome" \in DOMAIN message /\ message.is_welcome

\* s is the beginning of t
IsPrefix(s, t) == Len(s) <= Len(t) /\ SubSeq(t, 1, Len(s)) = s

(***************************************************************************)
(* C26.  process_query searches the knowledge base only for a query that   *)
(* is not small talk: a query whose cleaned text contains or is contained  *)
(* in a phrase of the small-talk tables (the empty cleaned text is in      *)
(* every phrase) is answered with a canned reply of the first table, in    *)
(* the order greeting, how_are_you, thank_you, goodbye, about_me, that has *)
(* such a phrase, and get_relevant_info is not called for it.              *)
(***************************************************************************)
C26_SmallTalkIsNotSearched ==
    [][ ProcessQueryStep =>
          LET tables == SmallTalkTables(Clean(Strip(Lower(Asked(messages').content))))
          IN  /\ via' # "conversation" => tables = {}
              /\ tables # {} =>
                     /\ via' = "conversation"
                     /\ result' = NoEntry
                     /\ kb_entry' = NoEntry
                     /\ Replied(messages').content \in
                            RepliesOfTable(CHOOSE t \in tables : \A u \in tables : t <= u) ]_vars

\* "bye, thanks" has a phrase of thank_you and a phrase of goodbye: it is
\* answered from thank_you and the knowledge base is not searched
C26_Witness ==
    /\ script.handler = "process_query"
    /\ via = "conversation"
    /\ result = NoEntry
    /\ Len(messages) >= 2
    /\ SmallTalkTables(Clean(Strip(Lower(Asked(messages).content)))) = {3, 4}
    /\ Replied(messages).content \in RepliesOfTable(3)

(***************************************************************************)
(* C27.  In every state of the session autoplay_pending implies that       *)
(* last_audio is neither None nor empty.                                   *)
(***************************************************************************)
C27_AutoplayPendingHasAudio == autoplay_pending => last_audio \notin {NoAudio, <<"">>}

\* process_query has queued the audio of its reply for autoplay
C27_Witness ==
    /\ script.handler = "process_query"
    /\ autoplay_pending
    /\ preferences.auto_play
    /\ last_audio = <<"wav at pitch 0">>
    /\ Replied(messages).audio = last_audio

(***************************************************************************)
(* C28.  Every process_query appends exactly two messages to the history,  *)
(* the user message and then the reply of the assistant, and leaves        *)
(* processing and listening false; a step that does not keep the history   *)
(* as the beginning of the new one is clear_chat and leaves it empty.      *)
(***************************************************************************)
C28_TwoMessagesPerQuery ==
    [][ /\ ProcessQueryStep =>
              /\ Len(messages') = Len(messages) + 2
              /\ IsPrefix(messages, messages')
              /\ Asked(messages').role = "user"
              /\ Asked(messages').content = query'
              /\ Replied(messages').role = "assistant"
              /\ ~processing'
              /\ ~listening'
        /\ ~IsPrefix(messages, messages') => ClearChatStep /\ messages' = <<>> ]_vars

\* a query for which no entry was found and whose speech failed although
\* voice is enabled has left its two messages after the welcome message
C28_Witness ==
    /\ script.handler = "process_query"
    /\ Len(messages) = 3
    /\ IsWelcome(messages[1])
    /\ messages[2].role = "user"
    /\ messages[3].role = "assistant"
    /\ messages[3].audio = NoAudio
    /\ preferences.voice_enabled
    /\ via = "none"
    /\ ~processing
    /\ ~listening

(***************************************************************************)
(* C30.  clear_chat leaves no message, welcomed false and listening,       *)
(* processing, speaking and autoplay_pending false; the script run after   *)
(* it leaves exactly one message, a welcome message, and welcomed true;    *)
(* the auto-welcome runs only from a state with welcomed false and no      *)
(* message.                                                                *)
(***************************************************************************)
C30_ClearChatThenOneWelcome ==
    [][ /\ ClearChatStep =>
              /\ messages' = <<>>
              /\ ~welcomed'
              /\ ~listening'
              /\ ~processing'
              /\ ~speaking'
              /\ ~autoplay_pending'
        /\ (script.handler = "clear_chat" /\ script.pending) =>
              /\ Len(messages') = 1
              /\ IsWelcome(messages'[1])
              /\ welcomed'
        /\ AutoWelcomeStep => ~welcomed /\ messages = <<>> ]_vars

\* the welcome of the run after a clear_chat: the preferences are no longer
\* the ones of the first run
C30_Witness ==
    /\ script.handler = "auto_welcome"
    /\ preferences # DefaultPreferences
    /\ Len(messages) = 1
    /\ IsWelcome(messages[1])
    /\ welcomed
    /\ audio_cache # <<>>

====
